---- MODULE Spec2Model ----
(***************************************************************************)
(* State-machine model of the 3D inspector's measurement / annotation core *)
(* (MeasurementSystem, AnnotationSystem, Utils geometry, Inspector3D tool  *)
(* modes).                                                                 *)
(*                                                                         *)
(* Numbers.  Coordinates are integers on a grid of Grid.perUnit steps per  *)
(* model unit.  A length or an area is a finite sum of (c/2)*sqrt(r) grid  *)
(* units with r squarefree; it is held exactly as the function r |-> c.    *)
(* Comparisons of one distance with another, or with a threshold, are made *)
(* on the squares.                                                         *)
(***************************************************************************)
EXTENDS Integers, Sequences, FiniteSets, TLC

\* ------------------------------------------------------------------ bounds
MaxMeasurements == 2
MaxPoints == 3
MaxTotalPoints == 3
MaxCreated == 2
MaxAnnotations == 1
SessionMeasurements == 1

\* ------------------------------------------------------------ input points
Grid == [perUnit |-> 20]

Pt(px, py, pz) == [x |-> px, y |-> py, z |-> pz]

\* JavaScript null / undefined
Null == [none |-> TRUE]

\* editingAnnotationId when no annotation is being edited (null)
NoId == 0

\* the handler logged no warning
NoWarning == ""

\* getIntersectionPoint found no surface under the pointer
NoHit == Null

\* surface points a measurement click, press or drag can pick
MeasurePicks == {Pt(0, 0, 0), Pt(20, 0, 0), Pt(0, 0, 20)}

\* surface points an annotation click can pick
AnnotPicks == {Pt(5, 3, 5), Pt(60, 0, 60)}

\* surface points a click can pick when the link of a point is looked up:
\* inside the triangle of MeasurePicks, outside it 0.2 units from an edge, and
\* more than 0.5 units from every edge
LinkPicks == {Pt(5, 3, 5), Pt(10, 0, -4), Pt(20, 0, 20)}

\* point sequences of the measurements a store is drawn with
Shapes ==
  {<<>>, <<Pt(0, 0, 0)>>, <<Pt(0, 0, 0), Pt(20, 0, 0)>>,
   <<Pt(20, 0, 0), Pt(0, 0, 20)>>,
   <<Pt(0, 0, 0), Pt(20, 0, 0), Pt(0, 0, 20)>>}

\* surface points a press can pick when the closest point is looked up: midway
\* between two points 0.1 units apart, on a point, and far from every point
ClosestPicks == {Pt(1, 0, 0), Pt(0, 0, 0), Pt(5, 0, 0)}

\* point sequences, with points 0.1 units apart and less, of the measurements
\* a store is drawn with when the closest point is looked up
ClosestShapes ==
  {<<>>, <<Pt(0, 0, 0)>>, <<Pt(2, 0, 0)>>, <<Pt(0, 0, 0), Pt(2, 0, 0)>>,
   <<Pt(2, 0, 0), Pt(0, 0, 0)>>, <<Pt(0, 0, 1), Pt(2, 0, 0)>>,
   <<Pt(0, 0, 1), Pt(0, 0, 0), Pt(2, 0, 0)>>}

\* point sequences a geometry function is applied to: the degenerate ones, the
\* unit square and the 3-4 right triangle in the (x, z) plane, a convex
\* trapezoid, a triangle tilted out of the plane, a convex pentagon and a
\* concave quadrilateral
KernelShapes ==
  {<<>>, <<Pt(20, 0, 20)>>, <<Pt(0, 0, 0), Pt(20, 0, 20)>>,
   <<Pt(0, 0, 0), Pt(20, 0, 0), Pt(20, 0, 20), Pt(0, 0, 20)>>,
   <<Pt(0, 0, 0), Pt(60, 0, 0), Pt(0, 0, 80)>>,
   <<Pt(0, 0, 0), Pt(40, 0, 0), Pt(30, 0, 20), Pt(10, 0, 20)>>,
   <<Pt(0, 0, 0), Pt(20, 20, 0), Pt(0, 0, 20)>>,
   <<Pt(0, 0, 0), Pt(20, 0, 0), Pt(30, 0, 10), Pt(20, 0, 20), Pt(0, 0, 20)>>,
   <<Pt(0, 0, 0), Pt(40, 0, 0), Pt(10, 0, 10), Pt(0, 0, 40)>>}

\* points a polygon test is applied to: (0.5, y, 0.5) and (1.5, y, 0.5) at
\* three heights y
KernelPoints ==
  {Pt(px, py, 10) : px \in {10, 30}, py \in {-40, 0, 60}}

\* where orbit and zoom input puts the camera: its start, 0.2 units from the
\* target on the x axis, and 150 units from it
CameraStops == {Pt(100, 60, 100), Pt(4, 0, 0), Pt(3000, 0, 0)}

\* point sequences of the measurement whose labels the overlay shows
OverlayShapes ==
  {<<Pt(0, 0, 0), Pt(20, 0, 0)>>, <<Pt(20, 0, 0), Pt(0, 0, 20)>>}

\* surface points of the reference point whose label the overlay shows
ReferencePicks == {Pt(0, 0, 20), Pt(20, 0, 0)}

\* the surface point of the HIMP assessment whose label the overlay shows
HimpPick == Pt(20, 0, 20)

\* the inputs and bounds of the measurement session
MeasureSession ==
  [picks |-> MeasurePicks,
   maxMeasurements |-> MaxMeasurements, maxPoints |-> MaxPoints,
   maxTotalPoints |-> MaxTotalPoints, maxCreated |-> MaxCreated]

\* the inputs and bounds of the session with annotations
AnnotSession ==
  [picks |-> MeasurePicks, annotPicks |-> AnnotPicks,
   maxMeasurements |-> SessionMeasurements, maxPoints |-> MaxPoints,
   maxTotalPoints |-> MaxTotalPoints, maxCreated |-> SessionMeasurements,
   maxAnnotations |-> MaxAnnotations]

\* the inputs and bounds of the tool-mode session: one surface point per tool
ModeSession ==
  [picks |-> {Pt(0, 0, 0)}, annotPicks |-> {Pt(5, 3, 5)},
   maxMeasurements |-> MaxMeasurements, maxPoints |-> MaxPoints,
   maxTotalPoints |-> MaxTotalPoints, maxCreated |-> MaxCreated,
   maxAnnotations |-> MaxAnnotations]

\* the inputs and bounds of the session that starts with a locked measurement
LockedSession ==
  [picks |-> {Pt(0, 0, 0), Pt(20, 0, 0)},
   maxMeasurements |-> SessionMeasurements + 1, maxPoints |-> MaxPoints,
   maxTotalPoints |-> MaxTotalPoints, maxCreated |-> SessionMeasurements + 1]

\* the inputs and bounds of the point-editing session: two surface points
EditSession ==
  [picks |-> {Pt(0, 0, 0), Pt(20, 0, 0)},
   maxMeasurements |-> SessionMeasurements, maxPoints |-> MaxPoints,
   maxTotalPoints |-> MaxTotalPoints, maxCreated |-> MaxCreated]

\* the inputs and bounds of the calls on the points of one measurement
PointsSession == [picks |-> MeasurePicks, maxPoints |-> MaxPoints + 1]

\* the inputs and bounds of the session that types annotation ids
IdSession ==
  [picks |-> {Pt(0, 0, 0)}, annotPicks |-> AnnotPicks,
   maxMeasurements |-> SessionMeasurements, maxPoints |-> MaxPoints,
   maxTotalPoints |-> MaxTotalPoints, maxCreated |-> SessionMeasurements,
   maxAnnotations |-> MaxAnnotations + 1]

\* the reference_points of the files the user imports: none, one with the
\* id REF1, one without an id, and two of which one has no id (0 = no id)
ImportFiles ==
  LET Entry(id) == [id |-> id, position |-> Pt(0, 0, 20)]
  IN {<<>>, <<Entry(1)>>, <<Entry(0)>>, <<Entry(0), Entry(1)>>,
      <<Entry(2), Entry(0)>>}

\* the inputs and bounds of the reference-point session
ReferenceSession ==
  [picks |-> ReferencePicks, files |-> ImportFiles,
   maxReferences |-> MaxAnnotations + 1, maxCreated |-> MaxCreated + 1]

\* ------------------------------------------------------------ exact numbers
Zero == [r \in {} |-> 0]

RECURSIVE SquarePart(_, _)
SquarePart(k, d) ==
  IF d * d > k THEN 1
  ELSE IF k % (d * d) = 0 THEN d * SquarePart(k \div (d * d), d)
  ELSE SquarePart(k, d + 1)

\* (h/2) * sqrt(k)
Root(k, h) ==
  IF k = 0 THEN Zero
  ELSE LET m == SquarePart(k, 2) IN [r \in {k \div (m * m)} |-> h * m]

Plus(a, b) ==
  [r \in (DOMAIN a) \cup (DOMAIN b) |->
     (IF r \in DOMAIN a THEN a[r] ELSE 0) + (IF r \in DOMAIN b THEN b[r] ELSE 0)]

\* sqrt(d2) grid units < num/den model units
Below(d2, num, den) ==
  d2 * den * den < num * num * Grid.perUnit * Grid.perUnit

\* ------------------------------------------------------------------- Utils
DistanceSq(p, q) ==
  (p.x - q.x) * (p.x - q.x) + (p.y - q.y) * (p.y - q.y) + (p.z - q.z) * (p.z - q.z)

calculateDistance(point1, point2) == Root(DistanceSq(point1, point2), 2)

CrossSq(b, p, q) ==
  LET v1 == Pt(p.x - b.x, p.y - b.y, p.z - b.z)
      v2 == Pt(q.x - b.x, q.y - b.y, q.z - b.z)
      cx == v1.y * v2.z - v1.z * v2.y
      cy == v1.z * v2.x - v1.x * v2.z
      cz == v1.x * v2.y - v1.y * v2.x
  IN cx * cx + cy * cy + cz * cz

\* the fan sum of the whole cross-product magnitudes (no halving)
RECURSIVE FanAreaWhole(_, _)
FanAreaWhole(points, i) ==
  IF i > Len(points) - 1 THEN Zero
  ELSE Plus(Root(CrossSq(points[1], points[i], points[i + 1]), 2),
            FanAreaWhole(points, i + 1))

RECURSIVE FanArea(_, _)
FanArea(points, i) ==
  IF i > Len(points) - 1 THEN Zero
  ELSE Plus(Root(CrossSq(points[1], points[i], points[i + 1]), 1),
            FanArea(points, i + 1))

calculatePolygonArea(points) ==
  IF Len(points) < 3 THEN Zero ELSE FanArea(points, 2)

\* the parity test on the (x, y) projection
EdgeCrossesXY(point, pi, pj) ==
  /\ (pi.y > point.y) # (pj.y > point.y)
  /\ LET dy == pj.y - pi.y
         lhs == (point.x - pi.x) * dy
         rhs == (pj.x - pi.x) * (point.y - pi.y)
     IN IF dy > 0 THEN lhs < rhs ELSE lhs > rhs

\* edge (polygonPoints[j], polygonPoints[i]) toggles the parity
EdgeCrosses(point, pi, pj) ==
  /\ (pi.z > point.z) # (pj.z > point.z)
  /\ LET dz == pj.z - pi.z
         lhs == (point.x - pi.x) * dz
         rhs == (pj.x - pi.x) * (point.z - pi.z)
     IN IF dz > 0 THEN lhs < rhs ELSE lhs > rhs

\* isPointInPolygon that answers true for fewer than 3 points
isPointInPolygonOpen(point, polygonPoints) ==
  IF Len(polygonPoints) < 3 THEN TRUE
  ELSE LET n == Len(polygonPoints)
           crossing == {i \in 1..n :
              EdgeCrosses(point, polygonPoints[i],
                          polygonPoints[IF i = 1 THEN n ELSE i - 1])}
       IN Cardinality(crossing) % 2 = 1

isPointInPolygon(point, polygonPoints) ==
  IF Len(polygonPoints) < 3 THEN FALSE
  ELSE LET n == Len(polygonPoints)
           crossing == {i \in 1..n :
              EdgeCrosses(point, polygonPoints[i],
                          polygonPoints[IF i = 1 THEN n ELSE i - 1])}
       IN Cardinality(crossing) % 2 = 1

\* ------------------------------------------------------------------- state
VARIABLES
  currentMode,              \* Inspector3D.currentMode
  mActive, aActive, rActive, hActive,   \* <system>.active
  measurements,             \* MeasurementSystem.measurements
  currentMeasurementIndex,  \* 0-based, -1 = none
  measurementIdCounter,
  isEditing, editingPointIndex, editingMeasurementIndex,
  controlsEnabled,          \* ControlsManager.enabled
  annotations,              \* AnnotationSystem.annotations
  annotationIdCounter,
  pendingAnnotationPoint,
  editingAnnotationId,
  currentMeasurementLink,
  modalOpen,                \* #annotation-modal is displayed
  threw,                    \* the last handler ended by a TypeError
  warned,                   \* MeasurementSystem's console.warn in the last handler
  camera,                   \* SceneManager.camera: its position
  labels,                   \* the overlay label divs, each with its 3D position
  labelsVisible,            \* MeasurementSystem.labelsVisible
  kernel,                   \* the last call of a Utils geometry function
  pendingClick,             \* the click event the browser dispatches after a mouseup
  linkRemoved,              \* 'Measurement link removed' was logged since the modal was shown
  report,                   \* the report ExportManager.generateReport returned last
  disposed,                 \* the systems whose dispose() has run
  referencePoints,          \* ReferenceSystem.referencePoints
  referenceIdCounter,
  pendingReferencePoint,
  editingReferenceId,
  himpScores,               \* HIMPSystem.himpScores
  himpIdCounter,
  pendingSurfacePoint,
  editingHimpId

vars == <<currentMode, mActive, aActive, rActive, hActive, measurements,
          currentMeasurementIndex, measurementIdCounter, isEditing,
          editingPointIndex, editingMeasurementIndex, controlsEnabled,
          annotations, annotationIdCounter, pendingAnnotationPoint,
          editingAnnotationId, currentMeasurementLink, modalOpen, threw,
          warned, camera, labels, labelsVisible, kernel, pendingClick,
          linkRemoved, report, disposed, referencePoints, referenceIdCounter,
          pendingReferencePoint, editingReferenceId, himpScores, himpIdCounter,
          pendingSurfacePoint, editingHimpId>>

\* the camera position SceneManager sets up
CameraHome == Pt(100, 60, 100)

\* no Utils geometry function was called
NoCall ==
  [applied |-> "none", points |-> <<>>, point |-> Pt(0, 0, 0),
   area |-> Zero, inside |-> FALSE]

\* the reference and HIMP stores are empty and neither tool has a pending point
InitTools ==
  /\ referencePoints = <<>>
  /\ referenceIdCounter = 1
  /\ pendingReferencePoint = Null
  /\ editingReferenceId = NoId
  /\ himpScores = <<>>
  /\ himpIdCounter = 1
  /\ pendingSurfacePoint = Null
  /\ editingHimpId = NoId

\* the scene shows no overlay label, no geometry call was made, no click is
\* pending and no report was generated
InitRest ==
  /\ camera = CameraHome
  /\ labels = <<>>
  /\ labelsVisible = TRUE
  /\ kernel = NoCall
  /\ pendingClick = Null
  /\ linkRemoved = FALSE
  /\ report = Null
  /\ disposed = {}
  /\ InitTools

Init ==
  /\ currentMode = "view"
  /\ mActive = FALSE /\ aActive = FALSE /\ rActive = FALSE /\ hActive = FALSE
  /\ measurements = <<>>
  /\ currentMeasurementIndex = -1
  /\ measurementIdCounter = 1
  /\ isEditing = FALSE /\ editingPointIndex = -1 /\ editingMeasurementIndex = -1
  /\ controlsEnabled = TRUE
  /\ annotations = <<>>
  /\ annotationIdCounter = 1
  /\ pendingAnnotationPoint = Null
  /\ editingAnnotationId = NoId
  /\ currentMeasurementLink = Null
  /\ modalOpen = FALSE
  /\ threw = FALSE
  /\ warned = NoWarning
  /\ InitRest

mvars == <<measurements, currentMeasurementIndex, measurementIdCounter>>
evars == <<isEditing, editingPointIndex, editingMeasurementIndex, controlsEnabled>>
modevars == <<currentMode, mActive, aActive, rActive, hActive>>
avars == <<annotations, annotationIdCounter, pendingAnnotationPoint,
           editingAnnotationId, currentMeasurementLink, modalOpen, linkRemoved>>
xvars == <<camera, labels, labelsVisible, kernel, pendingClick, report,
           disposed>>
rvars == <<referencePoints, referenceIdCounter, pendingReferencePoint,
           editingReferenceId>>
hvars == <<himpScores, himpIdCounter, pendingSurfacePoint, editingHimpId>>

\* ------------------------------------------------------- MeasurementSystem
PaletteSize == 10

RemoveAt(s, i) == SubSeq(s, 1, i - 1) \o SubSeq(s, i + 1, Len(s))

ReplaceAt(s, i, e) == [s EXCEPT ![i] = e]

RECURSIVE PathLength(_, _)
PathLength(points, i) ==
  IF i > Len(points) THEN Zero
  ELSE Plus(calculateDistance(points[i - 1], points[i]), PathLength(points, i + 1))

updateMeasurementDistance(m) ==
  LET n == Len(m.points)
      closing == IF m.isClosed /\ n >= 3
                 THEN calculateDistance(m.points[n], m.points[1]) ELSE Zero
  IN [m EXCEPT !.totalDistance = Plus(PathLength(m.points, 2), closing)]

updateMeasurementVisuals(m) ==
  IF Len(m.points) < 2 THEN m
  ELSE updateMeasurementDistance(
         IF m.isClosed /\ Len(m.points) >= 3
         THEN [m EXCEPT !.area = calculatePolygonArea(m.points)]
         ELSE m)

\* addPointToMeasurement that puts the point in front (unshift)
addPointToMeasurementFirst(m, point) ==
  IF m.isLocked THEN m ELSE [m EXCEPT !.points = <<point>> \o @]

\* addPointToMeasurement without the isLocked guard
addPointToMeasurementUnguarded(m, point) ==
  [m EXCEPT !.points = Append(@, point)]

addPointToMeasurement(m, point) ==
  IF m.isLocked THEN m ELSE [m EXCEPT !.points = Append(@, point)]

\* deletePointFromMeasurement that removes the last point (pop) whatever the index
deletePointFromMeasurementLast(m, pointIndex) ==
  IF m.isLocked THEN m
  ELSE IF pointIndex < 0 \/ pointIndex >= Len(m.points) THEN m
  ELSE updateMeasurementVisuals([m EXCEPT !.points = RemoveAt(@, Len(@))])

deletePointFromMeasurement(m, pointIndex) ==
  IF m.isLocked THEN m
  ELSE IF pointIndex < 0 \/ pointIndex >= Len(m.points) THEN m
  ELSE updateMeasurementVisuals([m EXCEPT !.points = RemoveAt(@, pointIndex + 1)])

\* the measurement object with its id taken from the number of measurements
\* in the store instead of the counter
NewMeasurementByCount(id, count) ==
  [id |-> count + 1, points |-> <<>>, color |-> count % PaletteSize,
   isClosed |-> FALSE, isLocked |-> FALSE, totalDistance |-> Zero, area |-> Zero]

\* the measurement object createNewMeasurement builds
NewMeasurement(id, count) ==
  [id |-> id, points |-> <<>>, color |-> count % PaletteSize,
   isClosed |-> FALSE, isLocked |-> FALSE, totalDistance |-> Zero, area |-> Zero]

hasCurrentMeasurement(ms, idx) == idx >= 0 /\ idx < Len(ms)

\* the double loop of findClosestPoint with distance <= closestDistance
RECURSIVE ScanClosestLast(_, _, _, _, _)
ScanClosestLast(position, ms, i, j, best) ==
  IF i >= Len(ms) THEN best
  ELSE IF j >= Len(ms[i + 1].points) THEN ScanClosestLast(position, ms, i + 1, 0, best)
  ELSE LET d2 == DistanceSq(position, ms[i + 1].points[j + 1])
           closer == IF best.pointIndex = -1 THEN Below(d2, 1, 10)
                     ELSE d2 <= best.distanceSq
       IN ScanClosestLast(position, ms, i, j + 1,
            IF closer THEN [measurement |-> i, pointIndex |-> j, distanceSq |-> d2]
            ELSE best)

\* one step of the double loop of findClosestPoint: point j of measurement i
\* (both 0-based), best = the closest hit so far
RECURSIVE ScanClosest(_, _, _, _, _)
ScanClosest(position, ms, i, j, best) ==
  IF i >= Len(ms) THEN best
  ELSE IF j >= Len(ms[i + 1].points) THEN ScanClosest(position, ms, i + 1, 0, best)
  ELSE LET d2 == DistanceSq(position, ms[i + 1].points[j + 1])
           closer == IF best.pointIndex = -1 THEN Below(d2, 1, 10)
                     ELSE d2 < best.distanceSq
       IN ScanClosest(position, ms, i, j + 1,
            IF closer THEN [measurement |-> i, pointIndex |-> j, distanceSq |-> d2]
            ELSE best)

findClosestPoint(position, ms) ==
  LET hit == ScanClosest(position, ms, 0, 0,
                         [measurement |-> -1, pointIndex |-> -1, distanceSq |-> -1])
  IN [measurement |-> hit.measurement, pointIndex |-> hit.pointIndex]

createNewMeasurement ==
  /\ measurements' = Append(measurements,
                            NewMeasurement(measurementIdCounter, Len(measurements)))
  /\ currentMeasurementIndex' = Len(measurements)
  /\ measurementIdCounter' = measurementIdCounter + 1

handleDeletePoint(pick) ==
  IF pick = NoHit THEN UNCHANGED mvars /\ warned' = NoWarning
  ELSE LET hit == findClosestPoint(pick, measurements) IN
       IF hit.pointIndex # -1
       THEN /\ measurements' = ReplaceAt(measurements, hit.measurement + 1,
                 deletePointFromMeasurement(measurements[hit.measurement + 1],
                                            hit.pointIndex))
            /\ warned' = IF measurements[hit.measurement + 1].isLocked
                         THEN "Cannot delete point from locked measurement"
                         ELSE NoWarning
            /\ UNCHANGED <<currentMeasurementIndex, measurementIdCounter>>
       ELSE UNCHANGED mvars /\ warned' = NoWarning

\* handleClick that gets or creates the current measurement before it looks
\* at the intersection point
handleClickCreatesFirst(pick, shift) ==
  IF isEditing THEN UNCHANGED mvars /\ warned' = NoWarning
  ELSE IF shift THEN handleDeletePoint(pick)
  ELSE IF hasCurrentMeasurement(measurements, currentMeasurementIndex)
  THEN /\ measurements' =
            IF pick = NoHit THEN measurements
            ELSE ReplaceAt(measurements, currentMeasurementIndex + 1,
                   updateMeasurementVisuals(
                     addPointToMeasurement(measurements[currentMeasurementIndex + 1], pick)))
       /\ warned' = NoWarning
       /\ UNCHANGED <<currentMeasurementIndex, measurementIdCounter>>
  ELSE /\ measurements' = Append(measurements,
            IF pick = NoHit THEN NewMeasurement(measurementIdCounter, Len(measurements))
            ELSE updateMeasurementVisuals(
                   addPointToMeasurement(
                     NewMeasurement(measurementIdCounter, Len(measurements)), pick)))
       /\ currentMeasurementIndex' = Len(measurements)
       /\ measurementIdCounter' = measurementIdCounter + 1
       /\ warned' = NoWarning

\* MeasurementSystem.handleClick
handleClick(pick, shift) ==
  IF isEditing THEN UNCHANGED mvars /\ warned' = NoWarning
  ELSE IF shift THEN handleDeletePoint(pick)
  ELSE IF pick = NoHit THEN UNCHANGED mvars /\ warned' = NoWarning
  ELSE IF hasCurrentMeasurement(measurements, currentMeasurementIndex)
  THEN /\ measurements' = ReplaceAt(measurements, currentMeasurementIndex + 1,
            updateMeasurementVisuals(
              addPointToMeasurement(measurements[currentMeasurementIndex + 1], pick)))
       /\ warned' = IF measurements[currentMeasurementIndex + 1].isLocked
                    THEN "Cannot add point to locked measurement" ELSE NoWarning
       /\ UNCHANGED <<currentMeasurementIndex, measurementIdCounter>>
  ELSE /\ measurements' = Append(measurements,
            updateMeasurementVisuals(
              addPointToMeasurement(
                NewMeasurement(measurementIdCounter, Len(measurements)), pick)))
       /\ currentMeasurementIndex' = Len(measurements)
       /\ measurementIdCounter' = measurementIdCounter + 1
       /\ warned' = NoWarning

\* startEditing that forgets controls.setEnabled(false)
startEditingKeepsCamera(measurementIdx, pointIndex) ==
  /\ isEditing' = TRUE
  /\ editingPointIndex' = pointIndex
  /\ editingMeasurementIndex' = measurementIdx
  /\ UNCHANGED controlsEnabled

startEditing(measurementIdx, pointIndex) ==
  /\ isEditing' = TRUE
  /\ editingPointIndex' = pointIndex
  /\ editingMeasurementIndex' = measurementIdx
  /\ controlsEnabled' = FALSE

\* stopEditing that forgets controls.setEnabled(true)
stopEditingKeepsCameraOff ==
  /\ isEditing' = FALSE
  /\ editingPointIndex' = -1
  /\ editingMeasurementIndex' = -1
  /\ UNCHANGED controlsEnabled

stopEditing ==
  /\ isEditing' = FALSE
  /\ editingPointIndex' = -1
  /\ editingMeasurementIndex' = -1
  /\ controlsEnabled' = TRUE

handleMouseDown(pick) ==
  IF pick = NoHit THEN UNCHANGED evars
  ELSE LET hit == findClosestPoint(pick, measurements) IN
       IF hit.pointIndex # -1 THEN startEditing(hit.measurement, hit.pointIndex)
       ELSE UNCHANGED evars

\* measurements[editingMeasurementIndex].points[editingPointIndex] exists
EditTargetExists ==
  /\ editingMeasurementIndex >= 0 /\ editingMeasurementIndex < Len(measurements)
  /\ editingPointIndex >= 0
  /\ editingPointIndex < Len(measurements[editingMeasurementIndex + 1].points)

handleMouseMove(pick) ==
  IF ~isEditing \/ pick = NoHit THEN UNCHANGED measurements /\ threw' = FALSE
  ELSE IF ~EditTargetExists THEN UNCHANGED measurements /\ threw' = TRUE
  ELSE /\ measurements' = ReplaceAt(measurements, editingMeasurementIndex + 1,
            updateMeasurementVisuals(
              [measurements[editingMeasurementIndex + 1]
                 EXCEPT !.points[editingPointIndex + 1] = pick]))
       /\ threw' = FALSE

\* closeMeasurement that asks for 2 points instead of 3
closeMeasurementAtTwo ==
  IF ~hasCurrentMeasurement(measurements, currentMeasurementIndex)
  THEN /\ UNCHANGED measurements
       /\ warned' = "Need at least 3 points to close measurement"
  ELSE LET m == measurements[currentMeasurementIndex + 1] IN
       IF Len(m.points) < 2
       THEN /\ UNCHANGED measurements
            /\ warned' = "Need at least 3 points to close measurement"
       ELSE IF m.isLocked
       THEN /\ UNCHANGED measurements
            /\ warned' = "Cannot close locked measurement"
       ELSE /\ measurements' = ReplaceAt(measurements, currentMeasurementIndex + 1,
                                 updateMeasurementVisuals([m EXCEPT !.isClosed = TRUE]))
            /\ warned' = NoWarning

closeMeasurement ==
  IF ~hasCurrentMeasurement(measurements, currentMeasurementIndex)
  THEN /\ UNCHANGED measurements
       /\ warned' = "Need at least 3 points to close measurement"
  ELSE LET m == measurements[currentMeasurementIndex + 1] IN
       IF Len(m.points) < 3
       THEN /\ UNCHANGED measurements
            /\ warned' = "Need at least 3 points to close measurement"
       ELSE IF m.isLocked
       THEN /\ UNCHANGED measurements
            /\ warned' = "Cannot close locked measurement"
       ELSE /\ measurements' = ReplaceAt(measurements, currentMeasurementIndex + 1,
                                 updateMeasurementVisuals([m EXCEPT !.isClosed = TRUE]))
            /\ warned' = NoWarning

\* switchToMeasurement without the range check
switchToMeasurementAny(index) ==
  currentMeasurementIndex' = index

switchToMeasurement(index) ==
  IF index >= 0 /\ index < Len(measurements)
  THEN currentMeasurementIndex' = index
  ELSE UNCHANGED currentMeasurementIndex

\* clearMeasurement that splices the first element whatever the measurement
clearMeasurementFirst(idx) ==
  IF measurements[idx + 1].isLocked
  THEN /\ UNCHANGED <<measurements, currentMeasurementIndex>>
       /\ warned' = "Cannot clear locked measurement"
  ELSE /\ measurements' = RemoveAt(measurements, 1)
       /\ currentMeasurementIndex' =
            IF currentMeasurementIndex >= 0 THEN currentMeasurementIndex - 1
            ELSE currentMeasurementIndex
       /\ warned' = NoWarning

\* clearMeasurement applied to the measurement at index idx (0-based)
clearMeasurement(idx) ==
  IF measurements[idx + 1].isLocked
  THEN /\ UNCHANGED <<measurements, currentMeasurementIndex>>
       /\ warned' = "Cannot clear locked measurement"
  ELSE /\ measurements' = RemoveAt(measurements, idx + 1)
       /\ currentMeasurementIndex' =
            IF currentMeasurementIndex >= idx THEN currentMeasurementIndex - 1
            ELSE currentMeasurementIndex
       /\ warned' = NoWarning

clearCurrent ==
  IF hasCurrentMeasurement(measurements, currentMeasurementIndex)
     /\ ~measurements[currentMeasurementIndex + 1].isLocked
  THEN clearMeasurement(currentMeasurementIndex)
  ELSE UNCHANGED <<measurements, currentMeasurementIndex>> /\ warned' = NoWarning

\* the measurement that clicks on pts[i], pts[i+1], ... grow m into
RECURSIVE AddPoints(_, _, _)
AddPoints(m, pts, i) ==
  IF i > Len(pts) THEN m
  ELSE AddPoints(updateMeasurementVisuals(addPointToMeasurement(m, pts[i])),
                 pts, i + 1)

\* the measurement createNewMeasurement, clicks on pts and, if closed, 'c'
\* produce; locked is the value its isLocked field then holds
Drawn(id, count, pts, closed, locked) ==
  LET opened == AddPoints(NewMeasurement(id, count), pts, 1)
      shaped == IF closed /\ Len(pts) >= 3
                THEN updateMeasurementVisuals([opened EXCEPT !.isClosed = TRUE])
                ELSE opened
  IN [shaped EXCEPT !.isLocked = locked]

\* --------------------------------------------------------- AnnotationSystem
Infinity == [infinity |-> TRUE]

TypeError == [exception |-> "TypeError"]

\* Utils has no member distancePointToLine: the call raises a TypeError
distancePointToLine(point, lineStart, lineEnd) == TypeError

\* the first iteration of the segment loop calls Utils.distancePointToLine
getDistanceToMeasurementLines(point, m) ==
  IF Len(m.points) < 2 THEN Infinity
  ELSE distancePointToLine(point, m.points[1], m.points[2])

InsideLink(m) == [measurement |-> m.id, relationship |-> "inside", distanceSq |-> 0]

\* the loop of findEnclosingMeasurement from measurement i (1-based) on;
\* lineDistance is Infinity whenever it is a number, so bestMatch stays as it is
RECURSIVE ScanEnclosing(_, _, _, _)
ScanEnclosing(point, ms, i, bestMatch) ==
  IF i > Len(ms) THEN bestMatch
  ELSE IF ms[i].isClosed /\ Len(ms[i].points) >= 3
          /\ isPointInPolygon(point, ms[i].points)
  THEN InsideLink(ms[i])
  ELSE IF getDistanceToMeasurementLines(point, ms[i]) = TypeError THEN TypeError
  ELSE ScanEnclosing(point, ms, i + 1, bestMatch)

findEnclosingMeasurement(point, ms) == ScanEnclosing(point, ms, 1, Null)

AnnotationById(id) ==
  LET found == {i \in 1..Len(annotations) : annotations[i].id = id}
  IN IF found = {} THEN Null
     ELSE annotations[CHOOSE i \in found : \A k \in found : i <= k]

\* the link updateMeasurementLinkInfo arrives at, or TypeError; editing and
\* pending are the values of editingAnnotationId and pendingAnnotationPoint
ComputedLink(editing, pending) ==
  LET annotation == IF editing # NoId THEN AnnotationById(editing) ELSE Null
      existing == IF annotation # Null THEN annotation.linkedMeasurement ELSE Null
  IN IF existing # Null THEN existing
     ELSE IF pending # Null THEN findEnclosingMeasurement(pending, measurements)
     ELSE Null

\* showAnnotationModal, after editingAnnotationId and pendingAnnotationPoint
\* have taken the values editing and pending
showAnnotationModal(editing, pending) ==
  LET link == ComputedLink(editing, pending) IN
  /\ editingAnnotationId' = editing
  /\ pendingAnnotationPoint' = pending
  /\ linkRemoved' = FALSE
  /\ IF link = TypeError
     THEN UNCHANGED <<currentMeasurementLink, modalOpen>> /\ threw' = TRUE
     ELSE currentMeasurementLink' = link /\ modalOpen' = TRUE /\ threw' = FALSE
  /\ UNCHANGED <<annotations, annotationIdCounter>>

\* AnnotationSystem.handleClick; label = the annotation whose label is under
\* the pointer (1-based), 0 = none
annotationHandleClick(label, pick) ==
  IF label # 0 THEN showAnnotationModal(annotations[label].id, pendingAnnotationPoint)
  ELSE IF pick = NoHit THEN UNCHANGED avars /\ threw' = FALSE
  ELSE showAnnotationModal(NoId, pick)

closeModal ==
  /\ modalOpen' = FALSE
  /\ pendingAnnotationPoint' = Null
  /\ editingAnnotationId' = NoId
  /\ linkRemoved' = FALSE

\* the id generateNewAnnotationId puts into the modal's id field: D<counter>
generateNewAnnotationId == annotationIdCounter

\* id = the value of the modal's id field (data.id)
createAnnotation(id) ==
  IF pendingAnnotationPoint = Null
  THEN UNCHANGED <<annotations, annotationIdCounter, currentMeasurementLink>>
  ELSE /\ annotations' = Append(annotations,
            [id |-> id, position |-> pendingAnnotationPoint,
             linkedMeasurement |-> currentMeasurementLink])
       /\ annotationIdCounter' = annotationIdCounter + 1
       /\ currentMeasurementLink' = Null

\* updateAnnotation that looks the link up again at the annotation's position
updateAnnotationRelinks(annotationId) ==
  /\ annotations' =
       [i \in 1..Len(annotations) |->
          IF annotations[i].id # annotationId THEN annotations[i]
          ELSE LET found == findEnclosingMeasurement(annotations[i].position,
                                                     measurements)
               IN [annotations[i] EXCEPT !.linkedMeasurement =
                     IF found = TypeError THEN Null ELSE found]]
  /\ UNCHANGED <<annotationIdCounter, currentMeasurementLink>>

\* updateAnnotation assigns title, type, severity, description, the two
\* flags, color and updatedAt: none of id, position and linkedMeasurement
updateAnnotation(annotationId) ==
  /\ annotations' =
       [i \in 1..Len(annotations) |->
          IF annotations[i].id # annotationId THEN annotations[i]
          ELSE [annotations[i] EXCEPT !.id = @, !.position = @,
                                      !.linkedMeasurement = @]]
  /\ UNCHANGED <<annotationIdCounter, currentMeasurementLink>>

\* the Save button; valid = validateAnnotationData accepts the fields, id =
\* the value of the id field
saveAnnotation(valid, id) ==
  /\ IF ~valid THEN UNCHANGED avars
     ELSE /\ IF editingAnnotationId # NoId
             THEN updateAnnotation(editingAnnotationId)
             ELSE createAnnotation(id)
          /\ closeModal
  /\ threw' = FALSE

\* the Cancel button
cancelAnnotation ==
  /\ closeModal
  /\ UNCHANGED <<annotations, annotationIdCounter, currentMeasurementLink>>
  /\ threw' = FALSE

\* the Delete button; confirmed = the user accepts the confirm() dialog
deleteAnnotation(confirmed) ==
  /\ IF editingAnnotationId = NoId \/ ~confirmed THEN UNCHANGED avars
     ELSE /\ annotations' =
               LET found == {i \in 1..Len(annotations) :
                               annotations[i].id = editingAnnotationId}
               IN IF found = {} THEN annotations
                  ELSE RemoveAt(annotations, CHOOSE i \in found : \A k \in found : i <= k)
          /\ closeModal
          /\ UNCHANGED <<annotationIdCounter, currentMeasurementLink>>
  /\ threw' = FALSE

\* the Remove Link button
removeMeasurementLink ==
  LET link == ComputedLink(editingAnnotationId, pendingAnnotationPoint) IN
  /\ IF link = TypeError
     THEN currentMeasurementLink' = Null /\ threw' = TRUE
     ELSE currentMeasurementLink' = link /\ threw' = FALSE
  /\ linkRemoved' = TRUE
  /\ UNCHANGED <<annotations, annotationIdCounter, pendingAnnotationPoint,
                 editingAnnotationId, modalOpen>>

\* AnnotationSystem.deactivate and AnnotationSystem.clearCurrent
annotationDeactivate ==
  /\ closeModal
  /\ UNCHANGED <<annotations, annotationIdCounter, currentMeasurementLink>>

\* ---------------------------------------------------------- ReferenceSystem
ReferenceById(id) ==
  LET found == {i \in 1..Len(referencePoints) : referencePoints[i].id = id}
  IN IF found = {} THEN 0 ELSE CHOOSE i \in found : \A k \in found : i <= k

cancelPendingReference ==
  /\ pendingReferencePoint' = Null
  /\ editingReferenceId' = NoId

\* ReferenceSystem.deactivate
referenceDeactivate ==
  /\ cancelPendingReference
  /\ UNCHANGED <<referencePoints, referenceIdCounter>>

\* ReferenceSystem.handleClick
referenceHandleClick(pick) ==
  IF pick = NoHit THEN UNCHANGED rvars
  ELSE /\ pendingReferencePoint' = pick
       /\ UNCHANGED <<referencePoints, referenceIdCounter, editingReferenceId>>

\* the reference point of id REF<id>
NewReference(id, position) == [id |-> id, position |-> position]

createReference(position) ==
  /\ referencePoints' = Append(referencePoints,
                               NewReference(referenceIdCounter, position))
  /\ referenceIdCounter' = referenceIdCounter + 1

\* updateReference assigns name, description, type and updatedAt: neither id
\* nor position
updateReference(referenceId) ==
  UNCHANGED <<referencePoints, referenceIdCounter>>

\* the Save button; accepted = the name is not empty and no other reference
\* point has it
saveReference(accepted) ==
  IF pendingReferencePoint = Null \/ ~accepted THEN UNCHANGED rvars
  ELSE /\ IF editingReferenceId # NoId
          THEN updateReference(editingReferenceId)
          ELSE createReference(pendingReferencePoint)
       /\ cancelPendingReference

\* the Edit button of the reference manager
editReference(referenceId) ==
  LET i == ReferenceById(referenceId) IN
  IF i = 0 THEN UNCHANGED rvars
  ELSE /\ editingReferenceId' = referenceId
       /\ pendingReferencePoint' = referencePoints[i].position
       /\ UNCHANGED <<referencePoints, referenceIdCounter>>

\* the Delete button; confirmed = the user accepts the confirm() dialog
deleteReference(confirmed) ==
  LET i == ReferenceById(editingReferenceId) IN
  IF editingReferenceId = NoId \/ i = 0 \/ ~confirmed THEN UNCHANGED rvars
  ELSE /\ referencePoints' = RemoveAt(referencePoints, i)
       /\ cancelPendingReference
       /\ UNCHANGED referenceIdCounter

\* the store and the counter after clearAllReferences
ClearedReferences(refs, counter, confirmed) ==
  IF Len(refs) = 0 \/ ~confirmed THEN [refs |-> refs, counter |-> counter]
  ELSE [refs |-> <<>>, counter |-> 1]

\* the Clear All button of the reference manager
clearAllReferences(confirmed) ==
  LET cleared == ClearedReferences(referencePoints, referenceIdCounter, confirmed)
  IN /\ referencePoints' = cleared.refs
     /\ referenceIdCounter' = cleared.counter
     /\ UNCHANGED <<pendingReferencePoint, editingReferenceId>>

\* the forEach of importReferences from entry i of the file on: an entry
\* without an id takes REF<counter>
RECURSIVE ImportEntries(_, _, _)
ImportEntries(entries, i, store) ==
  IF i > Len(entries) THEN store
  ELSE LET missing == entries[i].id = NoId
           id == IF missing THEN store.counter ELSE entries[i].id
       IN ImportEntries(entries, i + 1,
            [refs |-> Append(store.refs, NewReference(id, entries[i].position)),
             counter |-> IF missing THEN store.counter + 1 ELSE store.counter])

\* Math.max(...ids, 0)
RECURSIVE MaxId(_)
MaxId(refs) ==
  IF refs = <<>> THEN 0
  ELSE LET rest == MaxId(Tail(refs))
       IN IF Head(refs).id > rest THEN Head(refs).id ELSE rest

\* the FileReader's onload of importReferences; entries = reference_points of
\* the file, confirmed = the user accepts the confirm() of clearAllReferences
importReferences(entries, confirmed) ==
  LET cleared == ClearedReferences(referencePoints, referenceIdCounter, confirmed)
      imported == ImportEntries(entries, 1, cleared)
  IN /\ referencePoints' = imported.refs
     /\ referenceIdCounter' = MaxId(imported.refs) + 1
     /\ UNCHANGED <<pendingReferencePoint, editingReferenceId>>

\* --------------------------------------------------------------- HIMPSystem
himpCategories ==
  {"coating_condition", "general_corrosion", "pitting_grooving", "deformation",
   "fracture", "cleanliness"}

\* the values of the options of a score select other than 'Select Score'
ScoreOptions == 0..6

\* the form with every category scored v
Scored(v) == [c \in himpCategories |-> v]

\* the form with the six categories scored 0, 1, 2, 3, 4 and 5
Graded ==
  [c \in himpCategories |->
     CASE c = "coating_condition" -> 0
       [] c = "general_corrosion" -> 1
       [] c = "pitting_grooving" -> 2
       [] c = "deformation" -> 3
       [] c = "fracture" -> 4
       [] c = "cleanliness" -> 5]

\* the scores getCurrentScores reads from the form: every category scored
\* (0, 6, or 0 to 5), one select left at 'Select Score', and none scored
HimpForms ==
  {Scored(0), Scored(6), Graded,
   [c \in himpCategories \ {"fracture"} |-> 3],
   [c \in {} |-> 0]}

\* the inputs and bounds of the HIMP session
HimpSession ==
  [picks |-> {HimpPick, Pt(0, 0, 20)}, surfaceIds |-> {"", "A", "B"},
   forms |-> HimpForms,
   maxAssessments |-> MaxAnnotations + 1, maxCreated |-> MaxCreated + 1]

HimpById(id) ==
  LET found == {i \in 1..Len(himpScores) : himpScores[i].id = id}
  IN IF found = {} THEN 0 ELSE CHOOSE i \in found : \A k \in found : i <= k

cancelPendingHimp ==
  /\ pendingSurfacePoint' = Null
  /\ editingHimpId' = NoId

\* HIMPSystem.deactivate
himpDeactivate ==
  /\ cancelPendingHimp
  /\ UNCHANGED <<himpScores, himpIdCounter>>

\* HIMPSystem.handleSurfaceClick
handleSurfaceClick(pick) ==
  IF pick = NoHit THEN UNCHANGED hvars
  ELSE /\ pendingSurfacePoint' = pick
       /\ UNCHANGED <<himpScores, himpIdCounter, editingHimpId>>

createHimpAssessment(surfaceId, scores, position) ==
  /\ himpScores' = Append(himpScores,
       [id |-> himpIdCounter, surfaceId |-> surfaceId, himpScores |-> scores,
        position |-> position])
  /\ himpIdCounter' = himpIdCounter + 1

updateHimpAssessment(himpId, surfaceId, scores) ==
  LET i == HimpById(himpId) IN
  /\ himpScores' = IF i = 0 THEN himpScores
                   ELSE [himpScores EXCEPT ![i].surfaceId = surfaceId,
                                           ![i].himpScores = scores]
  /\ UNCHANGED himpIdCounter

\* saveHimpAssessment without the check for missing scores
saveHimpAssessmentUnchecked(surfaceId, scores) ==
  IF pendingSurfacePoint = Null THEN UNCHANGED hvars
  ELSE IF surfaceId = "" THEN UNCHANGED hvars
  ELSE IF \E i \in 1..Len(himpScores) :
            himpScores[i].surfaceId = surfaceId /\ himpScores[i].id # editingHimpId
  THEN UNCHANGED hvars
  ELSE /\ IF editingHimpId # NoId
          THEN updateHimpAssessment(editingHimpId, surfaceId, scores)
          ELSE createHimpAssessment(surfaceId, scores, pendingSurfacePoint)
       /\ cancelPendingHimp

\* the Save button; surfaceId and scores = the form fields, scores a function
\* on the categories whose select holds a score (getCurrentScores)
saveHimpAssessment(surfaceId, scores) ==
  IF pendingSurfacePoint = Null THEN UNCHANGED hvars
  ELSE IF surfaceId = "" THEN UNCHANGED hvars
  ELSE IF himpCategories \ DOMAIN scores # {} THEN UNCHANGED hvars
  ELSE IF \E i \in 1..Len(himpScores) :
            himpScores[i].surfaceId = surfaceId /\ himpScores[i].id # editingHimpId
  THEN UNCHANGED hvars
  ELSE /\ IF editingHimpId # NoId
          THEN updateHimpAssessment(editingHimpId, surfaceId, scores)
          ELSE createHimpAssessment(surfaceId, scores, pendingSurfacePoint)
       /\ cancelPendingHimp

\* the Edit button of the HIMP manager
editHimpAssessment(himpId) ==
  LET i == HimpById(himpId) IN
  IF i = 0 THEN UNCHANGED hvars
  ELSE /\ editingHimpId' = himpId
       /\ pendingSurfacePoint' = himpScores[i].position
       /\ UNCHANGED <<himpScores, himpIdCounter>>

\* the Delete button; confirmed = the user accepts the confirm() dialog
deleteHimpAssessment(confirmed) ==
  LET i == HimpById(editingHimpId) IN
  IF editingHimpId = NoId \/ i = 0 \/ ~confirmed THEN UNCHANGED hvars
  ELSE /\ himpScores' = RemoveAt(himpScores, i)
       /\ cancelPendingHimp
       /\ UNCHANGED himpIdCounter

\* the Clear All button of the HIMP manager
clearAllHimpAssessments(confirmed) ==
  /\ IF Len(himpScores) = 0 \/ ~confirmed
     THEN UNCHANGED <<himpScores, himpIdCounter>>
     ELSE himpScores' = <<>> /\ himpIdCounter' = 1
  /\ UNCHANGED <<pendingSurfacePoint, editingHimpId>>

\* ------------------------------------------------------------ ExportManager
\* the annotations whose linkedMeasurement has the property id equal to
\* measurementId; a link object has the properties measurement, relationship
\* and distance, so that its id is undefined
getLinkedAnnotations(measurementId) ==
  LET linked == SelectSeq(annotations,
        LAMBDA a : /\ a.linkedMeasurement # Null
                   /\ "id" \in DOMAIN a.linkedMeasurement
                   /\ a.linkedMeasurement.id = measurementId)
  IN [k \in 1..Len(linked) |-> [id |-> linked[k].id]]

getMeasurementData ==
  [i \in 1..Len(measurements) |->
     [id |-> measurements[i].id,
      isComplete |-> measurements[i].isClosed,
      linkedAnnotations |-> getLinkedAnnotations(measurements[i].id)]]

\* AnnotationSystem.getExportData, as getAnnotationData passes it on
getAnnotationData ==
  [j \in 1..Len(annotations) |->
     [id |-> annotations[j].id,
      linkedMeasurement |->
        IF annotations[j].linkedMeasurement # Null
        THEN [measurementId |-> annotations[j].linkedMeasurement.measurement,
              relationship |-> annotations[j].linkedMeasurement.relationship]
        ELSE Null]]

generateReport ==
  [measurements |-> getMeasurementData, annotations |-> getAnnotationData]

\* --------------------------------------------------------------- Inspector3D
toggleMeasurementMode ==
  /\ IF currentMode = "measure"
     THEN /\ currentMode' = "view"
          /\ mActive' = FALSE
          /\ UNCHANGED <<aActive, rActive, hActive>>
          /\ stopEditing
          /\ UNCHANGED avars
     ELSE /\ currentMode' = "measure"
          /\ aActive' = FALSE /\ rActive' = FALSE /\ hActive' = FALSE
          /\ mActive' = TRUE
          /\ annotationDeactivate
          /\ UNCHANGED evars
  /\ UNCHANGED mvars
  /\ threw' = FALSE /\ warned' = NoWarning
  /\ IF currentMode = "measure" THEN UNCHANGED <<rvars, hvars>>
     ELSE referenceDeactivate /\ himpDeactivate
  /\ UNCHANGED xvars

\* toggleAnnotationMode that forgets this.measurement.deactivate()
toggleAnnotationModeKeepsMeasurement ==
  /\ IF currentMode = "annotate"
     THEN /\ currentMode' = "view"
          /\ aActive' = FALSE
          /\ UNCHANGED <<mActive, rActive, hActive>>
          /\ annotationDeactivate
          /\ UNCHANGED evars
     ELSE /\ currentMode' = "annotate"
          /\ rActive' = FALSE /\ hActive' = FALSE
          /\ aActive' = TRUE
          /\ UNCHANGED <<mActive, evars, avars>>
  /\ UNCHANGED mvars
  /\ threw' = FALSE /\ warned' = NoWarning
  /\ IF currentMode = "annotate" THEN UNCHANGED <<rvars, hvars>>
     ELSE referenceDeactivate /\ himpDeactivate
  /\ UNCHANGED xvars

toggleAnnotationMode ==
  /\ IF currentMode = "annotate"
     THEN /\ currentMode' = "view"
          /\ aActive' = FALSE
          /\ UNCHANGED <<mActive, rActive, hActive>>
          /\ annotationDeactivate
          /\ UNCHANGED evars
     ELSE /\ currentMode' = "annotate"
          /\ mActive' = FALSE /\ rActive' = FALSE /\ hActive' = FALSE
          /\ aActive' = TRUE
          /\ stopEditing
          /\ UNCHANGED avars
  /\ UNCHANGED mvars
  /\ threw' = FALSE /\ warned' = NoWarning
  /\ IF currentMode = "annotate" THEN UNCHANGED <<rvars, hvars>>
     ELSE referenceDeactivate /\ himpDeactivate
  /\ UNCHANGED xvars

\* toggleReferenceMode whose measurement.deactivate() forgets stopEditing
toggleReferenceModeKeepsEditing ==
  /\ IF currentMode = "reference"
     THEN /\ currentMode' = "view"
          /\ rActive' = FALSE
          /\ UNCHANGED <<mActive, aActive, hActive>>
          /\ UNCHANGED <<evars, avars>>
     ELSE /\ currentMode' = "reference"
          /\ mActive' = FALSE /\ aActive' = FALSE /\ hActive' = FALSE
          /\ rActive' = TRUE
          /\ UNCHANGED evars
          /\ annotationDeactivate
  /\ UNCHANGED mvars
  /\ threw' = FALSE /\ warned' = NoWarning
  /\ IF currentMode = "reference" THEN referenceDeactivate /\ UNCHANGED hvars
     ELSE himpDeactivate /\ UNCHANGED rvars
  /\ UNCHANGED xvars

toggleReferenceMode ==
  /\ IF currentMode = "reference"
     THEN /\ currentMode' = "view"
          /\ rActive' = FALSE
          /\ UNCHANGED <<mActive, aActive, hActive>>
          /\ UNCHANGED <<evars, avars>>
     ELSE /\ currentMode' = "reference"
          /\ mActive' = FALSE /\ aActive' = FALSE /\ hActive' = FALSE
          /\ rActive' = TRUE
          /\ stopEditing
          /\ annotationDeactivate
  /\ UNCHANGED mvars
  /\ threw' = FALSE /\ warned' = NoWarning
  /\ IF currentMode = "reference" THEN referenceDeactivate /\ UNCHANGED hvars
     ELSE himpDeactivate /\ UNCHANGED rvars
  /\ UNCHANGED xvars

toggleHimpMode ==
  /\ IF currentMode = "himp"
     THEN /\ currentMode' = "view"
          /\ hActive' = FALSE
          /\ UNCHANGED <<mActive, aActive, rActive>>
          /\ UNCHANGED <<evars, avars>>
     ELSE /\ currentMode' = "himp"
          /\ mActive' = FALSE /\ aActive' = FALSE /\ rActive' = FALSE
          /\ hActive' = TRUE
          /\ stopEditing
          /\ annotationDeactivate
  /\ UNCHANGED mvars
  /\ threw' = FALSE /\ warned' = NoWarning
  /\ IF currentMode = "himp" THEN himpDeactivate /\ UNCHANGED rvars
     ELSE referenceDeactivate /\ UNCHANGED hvars
  /\ UNCHANGED xvars

\* ------------------------------------------------------------ overlay labels
\* OrbitControls.target: the point the camera looks at
Target == Pt(0, 0, 0)

\* the far plane of the camera and the range labels are shown in, in units
CameraFar == 1000
LabelRange == 100

Abs(n) == IF n < 0 THEN -n ELSE n

RECURSIVE GCD(_, _)
GCD(a, b) == IF b = 0 THEN a ELSE GCD(b, a % b)

Minus(p, q) == Pt(p.x - q.x, p.y - q.y, p.z - q.z)

Dot(v, w) == v.x * w.x + v.y * w.y + v.z * w.z

\* the direction of the non-zero vector v
Direction(v) ==
  LET g == GCD(GCD(Abs(v.x), Abs(v.y)), Abs(v.z))
  IN Pt(v.x \div g, v.y \div g, v.z \div g)

\* the line through the origin along the non-zero vector v
Line(v) ==
  LET d == Direction(v)
      flip == d.x < 0 \/ (d.x = 0 /\ d.y < 0) \/ (d.x = 0 /\ d.y = 0 /\ d.z < 0)
  IN IF flip THEN Pt(-d.x, -d.y, -d.z) ELSE d

\* Utils.calculateMidpoint
calculateMidpoint(point1, point2) ==
  Pt((point1.x + point2.x) \div 2, (point1.y + point2.y) \div 2,
     (point1.z + point2.z) \div 2)

\* point.clone().project(camera), x and y: the pixel is fixed by the line from
\* the camera through the point and by the direction the camera looks in
\* (the perspective division maps a point behind the camera to the pixel of
\* its mirror image in front); the point is not in the camera's own plane
projectToScreen(point, cam) ==
  [line |-> Line(Minus(point, cam)), view |-> Direction(Minus(Target, cam))]

\* point.clone().project(camera).z < 1: the point is in front of the camera
\* and nearer than the far plane
depthBelowOne(point, cam) ==
  LET dot == Dot(Minus(point, cam), Minus(Target, cam))
      c2 == DistanceSq(Target, cam)
      far == CameraFar * Grid.perUnit
      q == dot \div far
  IN /\ dot > 0
     /\ IF dot % far = 0 THEN q * q < c2
        ELSE IF (q + 1) * (q + 1) <= c2 THEN TRUE
        ELSE IF q * q >= c2 THEN FALSE
        ELSE dot * dot < far * far * c2

\* vector.z < 1 && distance < 100
isVisible(point, cam) ==
  depthBelowOne(point, cam) /\ Below(DistanceSq(cam, point), LabelRange, 1)

\* a label div as document.createElement and the create*Label methods leave
\* it: no left / top yet (at), display as given
NewLabel(kind, position, display) ==
  [kind |-> kind, position |-> position, at |-> Null, dx |-> 0, dy |-> 0,
   display |-> display]

\* the distance labels createMeasurementLine puts at the midpoints of the
\* segments i, i+1, ... of m
RECURSIVE distanceLabels(_, _, _)
distanceLabels(m, i, visible) ==
  IF i >= Len(m.points) THEN <<>>
  ELSE <<NewLabel("measurement", calculateMidpoint(m.points[i], m.points[i + 1]),
                  IF visible THEN "block" ELSE "none")>>
         \o distanceLabels(m, i + 1, visible)

\* MeasurementSystem.updateAllLabels
updateAllLabels(ls, cam, visible) ==
  IF ~visible THEN ls
  ELSE [i \in DOMAIN ls |->
          IF ls[i].kind # "measurement" THEN ls[i]
          ELSE [ls[i] EXCEPT !.at = projectToScreen(ls[i].position, cam),
                             !.dx = 0, !.dy = 0]]

\* AnnotationSystem.updateAllLabels
annotationUpdateAllLabels(ls, cam) ==
  [i \in DOMAIN ls |->
     IF ls[i].kind # "annotation" THEN ls[i]
     ELSE [ls[i] EXCEPT !.at = projectToScreen(ls[i].position, cam),
                        !.dx = 0, !.dy = 0]]

\* updateLabelPositions of ReferenceSystem that adds the offset to the
\* label's previous offset
updateLabelPositionsAdding(ls, cam) ==
  [i \in DOMAIN ls |->
     IF ls[i].kind # "reference" THEN ls[i]
     ELSE [ls[i] EXCEPT !.at = projectToScreen(ls[i].position, cam),
                        !.dx = @ + 20, !.dy = @ - 10,
                        !.display = IF isVisible(ls[i].position, cam)
                                    THEN "block" ELSE "none"]]

\* ReferenceSystem.updateLabelPositions
updateLabelPositions(ls, cam) ==
  [i \in DOMAIN ls |->
     IF ls[i].kind # "reference" THEN ls[i]
     ELSE [ls[i] EXCEPT !.at = projectToScreen(ls[i].position, cam),
                        !.dx = 20, !.dy = -10,
                        !.display = IF isVisible(ls[i].position, cam)
                                    THEN "block" ELSE "none"]]

\* HIMPSystem.updateLabelPositions
himpUpdateLabelPositions(ls, cam) ==
  [i \in DOMAIN ls |->
     IF ls[i].kind # "himp" THEN ls[i]
     ELSE [ls[i] EXCEPT !.at = projectToScreen(ls[i].position, cam),
                        !.dx = 25, !.dy = -15,
                        !.display = IF isVisible(ls[i].position, cam)
                                    THEN "block" ELSE "none"]]

\* the four label updates of one frame, in the order of the render loop
RepositionAll(ls, cam, visible) ==
  himpUpdateLabelPositions(
    updateLabelPositions(
      annotationUpdateAllLabels(updateAllLabels(ls, cam, visible), cam), cam), cam)

\* MeasurementSystem.toggleLabels
toggleLabels ==
  /\ labelsVisible' = ~labelsVisible
  /\ labels' = [i \in DOMAIN labels |->
                  IF labels[i].kind # "measurement" THEN labels[i]
                  ELSE [labels[i] EXCEPT !.display =
                          IF ~labelsVisible THEN "block" ELSE "none"]]

\* ------------------------------------------------------------ input events
RECURSIVE TotalPoints(_)
TotalPoints(ms) ==
  IF ms = <<>> THEN 0 ELSE Len(Head(ms).points) + TotalPoints(Tail(ms))

\* the store has room for one more measurement
RoomForMeasurement(B) ==
  Len(measurements) < B.maxMeasurements /\ measurementIdCounter <= B.maxCreated

\* the click stays within the bounds B of the model
ClickWithinBounds(pick, shift, B) ==
  (mActive /\ ~isEditing /\ ~shift /\ pick # NoHit) =>
    /\ TotalPoints(measurements) < B.maxTotalPoints
    /\ IF hasCurrentMeasurement(measurements, currentMeasurementIndex)
       THEN Len(measurements[currentMeasurementIndex + 1].points) < B.maxPoints
       ELSE RoomForMeasurement(B)

\* the listeners of the four tools that take a canvas click
ClickHandlers(shift, ctrl) ==
  {t \in {"measure", "annotate", "reference", "himp"} :
     \/ t = "measure" /\ mActive
     \/ t = "annotate" /\ aActive
     \/ t = "reference" /\ rActive /\ ~shift /\ ~ctrl
     \/ t = "himp" /\ hActive /\ ~shift /\ ~ctrl}

\* the click listeners of the reference and HIMP tools, each behind its guard
\* (a click of a Ctrl press is none of the model's clicks)
ToolClicks(pick, shift) ==
  /\ IF rActive /\ ~shift THEN referenceHandleClick(pick) ELSE UNCHANGED rvars
  /\ IF hActive /\ ~shift THEN handleSurfaceClick(pick) ELSE UNCHANGED hvars

\* 'click' on the canvas with the measurement listener missing its
\* this.active guard
CanvasClickUnguarded(pick, shift, label, B) ==
  /\ ClickWithinBounds(pick, shift, B)
  /\ handleClick(pick, shift)
  /\ IF aActive THEN annotationHandleClick(label, pick)
     ELSE UNCHANGED avars /\ threw' = FALSE
  /\ UNCHANGED <<modevars, evars>>
  /\ ToolClicks(pick, shift)
  /\ UNCHANGED xvars

\* 'click' on the canvas: every system's listener runs, each behind its guard;
\* pick = the surface point under the pointer, label = the annotation label
\* under the pointer (0 = none)
CanvasClick(pick, shift, label, B) ==
  /\ ClickWithinBounds(pick, shift, B)
  /\ IF mActive THEN handleClick(pick, shift)
     ELSE UNCHANGED mvars /\ warned' = NoWarning
  /\ IF aActive THEN annotationHandleClick(label, pick)
     ELSE UNCHANGED avars /\ threw' = FALSE
  /\ UNCHANGED <<modevars, evars>>
  /\ ToolClicks(pick, shift)
  /\ UNCHANGED xvars

\* 'mousedown' on the canvas with Ctrl held
CanvasMouseDown(pick) ==
  /\ IF mActive THEN handleMouseDown(pick) ELSE UNCHANGED evars
  /\ UNCHANGED <<modevars, mvars, avars>>
  /\ threw' = FALSE /\ warned' = NoWarning
  /\ UNCHANGED <<xvars, rvars, hvars>>

\* 'mousemove' on the canvas
CanvasMouseMove(pick) ==
  /\ IF mActive /\ isEditing THEN handleMouseMove(pick)
     ELSE UNCHANGED measurements /\ threw' = FALSE
  /\ UNCHANGED <<modevars, evars, avars, currentMeasurementIndex, measurementIdCounter>>
  /\ warned' = NoWarning
  /\ UNCHANGED <<xvars, rvars, hvars>>

\* 'mouseup' on the canvas
CanvasMouseUp ==
  /\ IF mActive /\ isEditing THEN stopEditing ELSE UNCHANGED evars
  /\ UNCHANGED <<modevars, mvars, avars>>
  /\ threw' = FALSE /\ warned' = NoWarning
  /\ UNCHANGED <<xvars, rvars, hvars>>

\* keydown 'c'
KeyC ==
  /\ IF currentMode = "measure" THEN closeMeasurement
     ELSE UNCHANGED measurements /\ warned' = NoWarning
  /\ UNCHANGED <<modevars, evars, avars, currentMeasurementIndex, measurementIdCounter>>
  /\ threw' = FALSE
  /\ UNCHANGED <<xvars, rvars, hvars>>

\* keydown 'n'
KeyN(B) ==
  /\ currentMode = "measure" => RoomForMeasurement(B)
  /\ IF currentMode = "measure" THEN createNewMeasurement ELSE UNCHANGED mvars
  /\ UNCHANGED <<modevars, evars, avars>>
  /\ threw' = FALSE /\ warned' = NoWarning
  /\ UNCHANGED <<xvars, rvars, hvars>>

\* keydown '1'..'9'
KeyDigit(k) ==
  /\ IF currentMode = "measure" THEN switchToMeasurement(k - 1)
     ELSE UNCHANGED currentMeasurementIndex
  /\ UNCHANGED <<modevars, evars, avars, measurements, measurementIdCounter>>
  /\ threw' = FALSE /\ warned' = NoWarning
  /\ UNCHANGED <<xvars, rvars, hvars>>

\* keydown 'Escape': Inspector3D.handleEscape
handleEscape ==
  /\ IF currentMode = "measure" THEN clearCurrent
     ELSE UNCHANGED <<measurements, currentMeasurementIndex>> /\ warned' = NoWarning
  /\ IF currentMode = "annotate" THEN annotationDeactivate ELSE UNCHANGED avars
  /\ UNCHANGED <<modevars, evars, measurementIdCounter>>
  /\ threw' = FALSE
  /\ UNCHANGED <<xvars, rvars, hvars>>

\* the Save button of the annotation modal, with the id field as
\* showAnnotationModal filled it
ModalSave(valid, B) ==
  /\ modalOpen
  /\ (valid /\ editingAnnotationId = NoId /\ pendingAnnotationPoint # Null) =>
       annotationIdCounter <= B.maxAnnotations
  /\ saveAnnotation(valid, generateNewAnnotationId)
  /\ UNCHANGED <<modevars, mvars, evars>>
  /\ warned' = NoWarning
  /\ UNCHANGED <<xvars, rvars, hvars>>

\* the Save button of the modal of a new annotation after the user typed id
\* into the id field
ModalSaveTyped(id, B) ==
  /\ modalOpen /\ editingAnnotationId = NoId
  /\ pendingAnnotationPoint # Null => annotationIdCounter <= B.maxAnnotations
  /\ saveAnnotation(TRUE, id)
  /\ UNCHANGED <<modevars, mvars, evars>>
  /\ warned' = NoWarning
  /\ UNCHANGED <<xvars, rvars, hvars>>

\* the Cancel button of the annotation modal
ModalCancel ==
  /\ modalOpen
  /\ cancelAnnotation
  /\ UNCHANGED <<modevars, mvars, evars>>
  /\ warned' = NoWarning
  /\ UNCHANGED <<xvars, rvars, hvars>>

\* the Delete button of the annotation modal, shown for an existing annotation
ModalDelete(confirmed) ==
  /\ modalOpen /\ editingAnnotationId # NoId
  /\ deleteAnnotation(confirmed)
  /\ UNCHANGED <<modevars, mvars, evars>>
  /\ warned' = NoWarning
  /\ UNCHANGED <<xvars, rvars, hvars>>

\* the Remove Link button, shown with the link information
ModalRemoveLink ==
  /\ modalOpen /\ currentMeasurementLink # Null
  /\ removeMeasurementLink
  /\ UNCHANGED <<modevars, mvars, evars>>
  /\ warned' = NoWarning
  /\ UNCHANGED <<xvars, rvars, hvars>>

\* one frame of the render loop: controls.update() applies the pending orbit
\* and zoom input to the camera when the controls are enabled, then every
\* system repositions its labels
animate ==
  /\ camera' \in IF controlsEnabled THEN CameraStops ELSE {camera}
  /\ labels' = RepositionAll(labels, camera', labelsVisible)
  /\ UNCHANGED <<modevars, mvars, evars, avars, threw, warned,
                 labelsVisible, kernel, pendingClick, report, disposed,
                 rvars, hvars>>

\* a tick of MeasurementSystem.labelUpdateTimer
measurementLabelTimer ==
  /\ labels' = IF mActive /\ labelsVisible
               THEN updateAllLabels(labels, camera, labelsVisible) ELSE labels
  /\ UNCHANGED <<modevars, mvars, evars, avars, threw, warned,
                 camera, labelsVisible, kernel, pendingClick, report,
                 disposed, rvars, hvars>>

\* a tick of AnnotationSystem.labelUpdateTimer
annotationLabelTimer ==
  /\ labels' = annotationUpdateAllLabels(labels, camera)
  /\ UNCHANGED <<modevars, mvars, evars, avars, threw, warned,
                 camera, labelsVisible, kernel, pendingClick, report,
                 disposed, rvars, hvars>>

\* keydown 'l'
KeyL ==
  /\ IF currentMode = "measure" THEN toggleLabels
     ELSE UNCHANGED <<labels, labelsVisible>>
  /\ UNCHANGED <<modevars, mvars, evars, avars, threw, warned,
                 camera, kernel, pendingClick, report, disposed, rvars, hvars>>

\* the Save button of the reference modal
ReferenceSave(accepted, B) ==
  /\ pendingReferencePoint # Null
  /\ (accepted /\ editingReferenceId = NoId) =>
       /\ Len(referencePoints) < B.maxReferences
       /\ referenceIdCounter <= B.maxCreated
  /\ saveReference(accepted)
  /\ UNCHANGED <<modevars, mvars, evars, avars, xvars, hvars>>
  /\ threw' = FALSE /\ warned' = NoWarning

\* the Cancel button of the reference modal: hideReferenceModal
ReferenceCancel ==
  /\ pendingReferencePoint # Null
  /\ cancelPendingReference
  /\ UNCHANGED <<referencePoints, referenceIdCounter>>
  /\ UNCHANGED <<modevars, mvars, evars, avars, xvars, hvars>>
  /\ threw' = FALSE /\ warned' = NoWarning

\* the Edit button of a row of the reference manager
ReferenceEdit(referenceId) ==
  /\ editReference(referenceId)
  /\ UNCHANGED <<modevars, mvars, evars, avars, xvars, hvars>>
  /\ threw' = FALSE /\ warned' = NoWarning

\* the Delete button of the reference modal
ReferenceDelete(confirmed) ==
  /\ editingReferenceId # NoId
  /\ deleteReference(confirmed)
  /\ UNCHANGED <<modevars, mvars, evars, avars, xvars, hvars>>
  /\ threw' = FALSE /\ warned' = NoWarning

\* the Clear All button of the reference manager
ReferenceClearAll(confirmed) ==
  /\ clearAllReferences(confirmed)
  /\ UNCHANGED <<modevars, mvars, evars, avars, xvars, hvars>>
  /\ threw' = FALSE /\ warned' = NoWarning

\* the Import button of the reference manager, once the file is read
ReferenceImport(entries, confirmed, B) ==
  /\ importReferences(entries, confirmed)
  /\ Len(referencePoints') <= B.maxReferences
  /\ referenceIdCounter' <= B.maxCreated + 1
  /\ UNCHANGED <<modevars, mvars, evars, avars, xvars, hvars>>
  /\ threw' = FALSE /\ warned' = NoWarning

\* the Save button of the HIMP modal; surfaceId and scores = the form fields
HimpSave(surfaceId, scores, B) ==
  /\ pendingSurfacePoint # Null
  /\ editingHimpId = NoId =>
       /\ Len(himpScores) < B.maxAssessments
       /\ himpIdCounter <= B.maxCreated
  /\ saveHimpAssessment(surfaceId, scores)
  /\ UNCHANGED <<modevars, mvars, evars, avars, xvars, rvars>>
  /\ threw' = FALSE /\ warned' = NoWarning

\* the Cancel button of the HIMP modal: hideHimpModal
HimpCancel ==
  /\ pendingSurfacePoint # Null
  /\ cancelPendingHimp
  /\ UNCHANGED <<himpScores, himpIdCounter>>
  /\ UNCHANGED <<modevars, mvars, evars, avars, xvars, rvars>>
  /\ threw' = FALSE /\ warned' = NoWarning

\* the Edit button of a row of the HIMP manager
HimpEdit(himpId) ==
  /\ editHimpAssessment(himpId)
  /\ UNCHANGED <<modevars, mvars, evars, avars, xvars, rvars>>
  /\ threw' = FALSE /\ warned' = NoWarning

\* the Delete button of the HIMP modal
HimpDelete(confirmed) ==
  /\ editingHimpId # NoId
  /\ deleteHimpAssessment(confirmed)
  /\ UNCHANGED <<modevars, mvars, evars, avars, xvars, rvars>>
  /\ threw' = FALSE /\ warned' = NoWarning

\* the Clear All button of the HIMP manager
HimpClearAll(confirmed) ==
  /\ clearAllHimpAssessments(confirmed)
  /\ UNCHANGED <<modevars, mvars, evars, avars, xvars, rvars>>
  /\ threw' = FALSE /\ warned' = NoWarning

\* the Export button: Inspector3D.exportData
exportData ==
  /\ report' = generateReport
  /\ UNCHANGED <<modevars, mvars, evars, avars, threw, warned, camera, labels,
                 labelsVisible, kernel, pendingClick, disposed, rvars, hvars>>

\* ------------------------------------------------------------ specifications
ModeStep ==
  \/ toggleMeasurementMode
  \/ toggleAnnotationMode
  \/ toggleReferenceMode
  \/ toggleHimpMode

MeasureStep(B) ==
  \/ \E pick \in B.picks \cup {NoHit}, shift \in BOOLEAN :
       ~aActive /\ CanvasClick(pick, shift, 0, B)
  \/ \E pick \in B.picks \cup {NoHit} : CanvasMouseDown(pick)
  \/ \E pick \in B.picks \cup {NoHit} : CanvasMouseMove(pick)
  \/ CanvasMouseUp
  \/ KeyC
  \/ KeyN(B)
  \/ \E k \in 1..(B.maxMeasurements + 1) : KeyDigit(k)
  \/ handleEscape

AnnotStep(B) ==
  \/ \E pick \in B.annotPicks \cup {NoHit}, label \in 0..Len(annotations) :
       aActive /\ CanvasClick(pick, FALSE, label, B)
  \/ \E valid \in BOOLEAN : ModalSave(valid, B)
  \/ ModalCancel
  \/ \E confirmed \in BOOLEAN : ModalDelete(confirmed)

\* the measurement session: tool modes and measurement input
Next == ModeStep \/ MeasureStep(MeasureSession)

Spec == Init /\ [][Next]_vars

\* the whole session: tool modes, measurement input and annotation input
NextSession ==
  ModeStep \/ MeasureStep(AnnotSession) \/ AnnotStep(AnnotSession) \/ ModalRemoveLink

SpecSession == Init /\ [][NextSession]_vars

\* the tool-mode session: every tool's input, one surface point each
NextModes == ModeStep \/ MeasureStep(ModeSession) \/ AnnotStep(ModeSession)

SpecModes == Init /\ [][NextModes]_vars

\* the point-editing session: tool modes and measurement input on two points
NextEdit == ModeStep \/ MeasureStep(EditSession)

SpecEdit == Init /\ [][NextEdit]_vars

\* a session over a store that holds one locked measurement.  isLocked is a
\* field of the measurement object that every guard of MeasurementSystem
\* reads and no method writes after construction: the flag is an input.
InitLocked ==
  /\ \E pts \in Shapes, closed \in BOOLEAN :
       measurements = <<Drawn(1, 0, pts, closed, TRUE)>>
  /\ currentMeasurementIndex = 0
  /\ measurementIdCounter = 2
  /\ currentMode = "view"
  /\ mActive = FALSE /\ aActive = FALSE /\ rActive = FALSE /\ hActive = FALSE
  /\ isEditing = FALSE /\ editingPointIndex = -1 /\ editingMeasurementIndex = -1
  /\ controlsEnabled = TRUE
  /\ annotations = <<>>
  /\ annotationIdCounter = 1
  /\ pendingAnnotationPoint = Null
  /\ editingAnnotationId = NoId
  /\ currentMeasurementLink = Null
  /\ modalOpen = FALSE
  /\ threw = FALSE
  /\ warned = NoWarning
  /\ InitRest

NextLocked == ModeStep \/ MeasureStep(LockedSession)

SpecLocked == InitLocked /\ [][NextLocked]_vars

\* annotations over a drawn measurement whose points are then edited: the
\* store holds one unlocked measurement drawn from Shapes; the measurement
\* tool deletes and drags its points and clears it, the annotation tool
\* places, edits and deletes annotations
InitNotes ==
  /\ \E pts \in Shapes, closed \in BOOLEAN :
       measurements = <<Drawn(1, 0, pts, closed, FALSE)>>
  /\ currentMeasurementIndex = 0
  /\ measurementIdCounter = 2
  /\ currentMode = "view"
  /\ mActive = FALSE /\ aActive = FALSE /\ rActive = FALSE /\ hActive = FALSE
  /\ isEditing = FALSE /\ editingPointIndex = -1 /\ editingMeasurementIndex = -1
  /\ controlsEnabled = TRUE
  /\ annotations = <<>>
  /\ annotationIdCounter = 1
  /\ pendingAnnotationPoint = Null
  /\ editingAnnotationId = NoId
  /\ currentMeasurementLink = Null
  /\ modalOpen = FALSE
  /\ threw = FALSE
  /\ warned = NoWarning
  /\ InitRest

NextNotes ==
  \/ toggleMeasurementMode
  \/ toggleAnnotationMode
  \/ \E pick \in MeasurePicks : ~aActive /\ CanvasClick(pick, TRUE, 0, AnnotSession)
  \/ \E pick \in MeasurePicks : CanvasMouseDown(pick)
  \/ \E pick \in MeasurePicks : CanvasMouseMove(pick)
  \/ CanvasMouseUp
  \/ handleEscape
  \/ AnnotStep(AnnotSession)
  \/ ModalRemoveLink

SpecNotes == InitNotes /\ [][NextNotes]_vars

\* the stores of one or two open, unlocked measurements drawn from shapes
StoresOf(shapes) ==
  LET Placed(pts, i) == Drawn(i, i - 1, pts, FALSE, FALSE)
  IN {<<Placed(p, 1)>> : p \in shapes}
       \cup {<<Placed(p, 1), Placed(q, 2)>> : p \in shapes, q \in shapes}

\* findClosestPoint applied to drawn stores: the measurement tool is active
\* and every Ctrl press looks up the closest point
InitClosest ==
  /\ measurements \in StoresOf(ClosestShapes)
  /\ currentMeasurementIndex = Len(measurements) - 1
  /\ measurementIdCounter = Len(measurements) + 1
  /\ currentMode = "measure"
  /\ mActive = TRUE /\ aActive = FALSE /\ rActive = FALSE /\ hActive = FALSE
  /\ isEditing = FALSE /\ editingPointIndex = -1 /\ editingMeasurementIndex = -1
  /\ controlsEnabled = TRUE
  /\ annotations = <<>>
  /\ annotationIdCounter = 1
  /\ pendingAnnotationPoint = Null
  /\ editingAnnotationId = NoId
  /\ currentMeasurementLink = Null
  /\ modalOpen = FALSE
  /\ threw = FALSE
  /\ warned = NoWarning
  /\ InitRest

NextClosest ==
  \/ \E pick \in ClosestPicks \cup {NoHit} : CanvasMouseDown(pick)
  \/ CanvasMouseUp

SpecClosest == InitClosest /\ [][NextClosest]_vars

\* the stores of one or two unlocked measurements drawn from Shapes
LinkStores ==
  LET kinds == {Drawn(0, 0, pts, closed, FALSE) : pts \in Shapes, closed \in BOOLEAN}
      Placed(m, i) == [m EXCEPT !.id = i, !.color = (i - 1) % PaletteSize]
  IN {<<Placed(m, 1)>> : m \in kinds}
       \cup {<<Placed(m, 1), Placed(n, 2)>> : m \in kinds, n \in kinds}

\* findEnclosingMeasurement applied to drawn stores: the annotation tool is
\* active and every click looks up the link of the picked point
InitLink ==
  /\ measurements \in LinkStores
  /\ currentMeasurementIndex = Len(measurements) - 1
  /\ measurementIdCounter = Len(measurements) + 1
  /\ currentMode = "annotate"
  /\ mActive = FALSE /\ aActive = TRUE /\ rActive = FALSE /\ hActive = FALSE
  /\ isEditing = FALSE /\ editingPointIndex = -1 /\ editingMeasurementIndex = -1
  /\ controlsEnabled = TRUE
  /\ annotations = <<>>
  /\ annotationIdCounter = 1
  /\ pendingAnnotationPoint = Null
  /\ editingAnnotationId = NoId
  /\ currentMeasurementLink = Null
  /\ modalOpen = FALSE
  /\ threw = FALSE
  /\ warned = NoWarning
  /\ InitRest

LinkClick(pick) == CanvasClick(pick, FALSE, 0, AnnotSession)

NextLink ==
  \/ \E pick \in LinkPicks \cup {NoHit} : LinkClick(pick)
  \/ ModalCancel

SpecLink == InitLink /\ [][NextLink]_vars

\* the report of a session with annotations over a drawn measurement
NextExport == NextNotes \/ exportData

SpecExport == InitNotes /\ [][NextExport]_vars

\* the annotation tool with a user who accepts the suggested id or types one
\* of the ids D001, D002, ... into the id field
NextIds ==
  \/ toggleAnnotationMode
  \/ AnnotStep(IdSession)
  \/ \E id \in 1..(IdSession.maxAnnotations + 1) : ModalSaveTyped(id, IdSession)

SpecIds == Init /\ [][NextIds]_vars

\* the reference-point tool: placing, editing and deleting reference points,
\* clearing them all and importing files
NextReference ==
  \/ toggleReferenceMode
  \/ \E pick \in ReferenceSession.picks \cup {NoHit} :
       CanvasClick(pick, FALSE, 0, ReferenceSession)
  \/ \E accepted \in BOOLEAN : ReferenceSave(accepted, ReferenceSession)
  \/ ReferenceCancel
  \/ \E i \in 1..Len(referencePoints) : ReferenceEdit(referencePoints[i].id)
  \/ \E confirmed \in BOOLEAN : ReferenceDelete(confirmed)
  \/ \E confirmed \in BOOLEAN : ReferenceClearAll(confirmed)
  \/ \E entries \in ReferenceSession.files, confirmed \in BOOLEAN :
       ReferenceImport(entries, confirmed, ReferenceSession)

SpecReference == Init /\ [][NextReference]_vars

\* the HIMP tool: picking surfaces, saving, editing and deleting assessments
\* and clearing them all
NextHimp ==
  \/ toggleHimpMode
  \/ \E pick \in HimpSession.picks \cup {NoHit} :
       CanvasClick(pick, FALSE, 0, HimpSession)
  \/ \E surfaceId \in HimpSession.surfaceIds, scores \in HimpSession.forms :
       HimpSave(surfaceId, scores, HimpSession)
  \/ HimpCancel
  \/ \E i \in 1..Len(himpScores) : HimpEdit(himpScores[i].id)
  \/ \E confirmed \in BOOLEAN : HimpDelete(confirmed)
  \/ \E confirmed \in BOOLEAN : HimpClearAll(confirmed)

SpecHimp == Init /\ [][NextHimp]_vars

\* a call of addPointToMeasurement on the drawn measurement
ApplyAddPoint(point) ==
  /\ Len(measurements[1].points) < PointsSession.maxPoints
  /\ measurements' = <<addPointToMeasurement(measurements[1], point)>>
  /\ UNCHANGED <<modevars, currentMeasurementIndex, measurementIdCounter, evars,
                 avars, threw, warned, xvars, rvars, hvars>>

\* a call of deletePointFromMeasurement on the drawn measurement
ApplyDeletePoint(pointIndex) ==
  /\ measurements' = <<deletePointFromMeasurement(measurements[1], pointIndex)>>
  /\ UNCHANGED <<modevars, currentMeasurementIndex, measurementIdCounter, evars,
                 avars, threw, warned, xvars, rvars, hvars>>

\* addPointToMeasurement and deletePointFromMeasurement applied to one
\* unlocked measurement drawn from Shapes, with every index from -1 to one
\* past the longest sequence
NextPoints ==
  \/ \E point \in PointsSession.picks : ApplyAddPoint(point)
  \/ \E pointIndex \in -1..PointsSession.maxPoints : ApplyDeletePoint(pointIndex)

SpecPoints == InitNotes /\ [][NextPoints]_vars

\* a call of Utils.calculatePolygonArea on the drawn point sequence
ApplyPolygonArea ==
  /\ kernel.applied = "none"
  /\ kernel' = [kernel EXCEPT !.applied = "calculatePolygonArea",
                              !.area = calculatePolygonArea(kernel.points)]
  /\ UNCHANGED <<modevars, mvars, evars, avars, threw, warned,
                 camera, labels, labelsVisible, pendingClick, report,
                 disposed, rvars, hvars>>

\* a call of Utils.isPointInPolygon on the drawn point and point sequence
ApplyPointInPolygon ==
  /\ kernel.applied = "none"
  /\ kernel' = [kernel EXCEPT !.applied = "isPointInPolygon",
                              !.inside = isPointInPolygon(kernel.point, kernel.points)]
  /\ UNCHANGED <<modevars, mvars, evars, avars, threw, warned,
                 camera, labels, labelsVisible, pendingClick, report,
                 disposed, rvars, hvars>>

\* the geometry functions applied to drawn arguments
InitKernel ==
  /\ \E pts \in KernelShapes, p \in KernelPoints :
       kernel = [NoCall EXCEPT !.points = pts, !.point = p]
  /\ camera = CameraHome
  /\ labels = <<>>
  /\ labelsVisible = TRUE
  /\ pendingClick = Null
  /\ linkRemoved = FALSE
  /\ report = Null
  /\ disposed = {}
  /\ InitTools
  /\ currentMode = "view"
  /\ mActive = FALSE /\ aActive = FALSE /\ rActive = FALSE /\ hActive = FALSE
  /\ measurements = <<>>
  /\ currentMeasurementIndex = -1
  /\ measurementIdCounter = 1
  /\ isEditing = FALSE /\ editingPointIndex = -1 /\ editingMeasurementIndex = -1
  /\ controlsEnabled = TRUE
  /\ annotations = <<>>
  /\ annotationIdCounter = 1
  /\ pendingAnnotationPoint = Null
  /\ editingAnnotationId = NoId
  /\ currentMeasurementLink = Null
  /\ modalOpen = FALSE
  /\ threw = FALSE
  /\ warned = NoWarning

NextKernel == ApplyPolygonArea \/ ApplyPointInPolygon

SpecKernel == InitKernel /\ [][NextKernel]_vars

\* the overlay of a scene at rest: one measurement of two points, one
\* annotation, one reference point and one HIMP assessment, each with its
\* label as it was created; frames and timer ticks reposition the labels
\* while the user orbits, switches tools and toggles the measurement labels
InitOverlay ==
  /\ \E pts \in OverlayShapes, note \in AnnotPicks, ref \in ReferencePicks :
       /\ measurements = <<Drawn(1, 0, pts, FALSE, FALSE)>>
       /\ annotations = <<[id |-> 1, position |-> note, linkedMeasurement |-> Null]>>
       /\ labels = distanceLabels(measurements[1], 1, TRUE)
                     \o <<NewLabel("annotation", note, ""),
                          NewLabel("reference", ref, ""),
                          NewLabel("himp", HimpPick, "")>>
       /\ referencePoints = <<NewReference(1, ref)>>
  /\ himpScores = <<[id |-> 1, surfaceId |-> "A", himpScores |-> Scored(2),
                     position |-> HimpPick]>>
  /\ referenceIdCounter = 2
  /\ himpIdCounter = 2
  /\ pendingReferencePoint = Null /\ editingReferenceId = NoId
  /\ pendingSurfacePoint = Null /\ editingHimpId = NoId
  /\ camera = CameraHome
  /\ labelsVisible = TRUE
  /\ kernel = NoCall
  /\ pendingClick = Null
  /\ linkRemoved = FALSE
  /\ report = Null
  /\ disposed = {}
  /\ currentMeasurementIndex = 0
  /\ measurementIdCounter = 2
  /\ annotationIdCounter = 2
  /\ currentMode = "view"
  /\ mActive = FALSE /\ aActive = FALSE /\ rActive = FALSE /\ hActive = FALSE
  /\ isEditing = FALSE /\ editingPointIndex = -1 /\ editingMeasurementIndex = -1
  /\ controlsEnabled = TRUE
  /\ pendingAnnotationPoint = Null
  /\ editingAnnotationId = NoId
  /\ currentMeasurementLink = Null
  /\ modalOpen = FALSE
  /\ threw = FALSE
  /\ warned = NoWarning

NextOverlay ==
  \/ animate
  \/ measurementLabelTimer
  \/ annotationLabelTimer
  \/ KeyL
  \/ ModeStep

SpecOverlay == InitOverlay /\ [][NextOverlay]_vars

\* pointer gestures on the canvas, event by event: the browser dispatches the
\* click of a press and release on the canvas right after the mouseup,
\* before any other input event.  The store starts with one drawn
\* measurement and the measurement tool active.
InitGesture ==
  /\ \E pts \in Shapes : measurements = <<Drawn(1, 0, pts, FALSE, FALSE)>>
  /\ currentMeasurementIndex = 0
  /\ measurementIdCounter = 2
  /\ currentMode = "measure"
  /\ mActive = TRUE /\ aActive = FALSE /\ rActive = FALSE /\ hActive = FALSE
  /\ isEditing = FALSE /\ editingPointIndex = -1 /\ editingMeasurementIndex = -1
  /\ controlsEnabled = TRUE
  /\ annotations = <<>>
  /\ annotationIdCounter = 1
  /\ pendingAnnotationPoint = Null
  /\ editingAnnotationId = NoId
  /\ currentMeasurementLink = Null
  /\ modalOpen = FALSE
  /\ threw = FALSE
  /\ warned = NoWarning
  /\ InitRest

\* 'mousedown' with Ctrl held
GesturePress(pick) == pendingClick = Null /\ CanvasMouseDown(pick)

\* 'mousemove'
GestureMove(pick) == pendingClick = Null /\ CanvasMouseMove(pick)

\* the click that follows the release stays within the bounds B of the model
ClickAfterReleaseWithinBounds(pick, shift, B) ==
  (mActive /\ ~shift /\ pick # NoHit) =>
    /\ TotalPoints(measurements) < B.maxTotalPoints
    /\ IF hasCurrentMeasurement(measurements, currentMeasurementIndex)
       THEN Len(measurements[currentMeasurementIndex + 1].points) < B.maxPoints
       ELSE RoomForMeasurement(B)

\* 'mouseup' at pick, with Shift held or not: the mouseup listener runs and
\* the click event is queued; endsEdit = the release ended a point edit
GestureRelease(pick, shift, B) ==
  /\ pendingClick = Null
  /\ ClickAfterReleaseWithinBounds(pick, shift, B)
  /\ IF mActive /\ isEditing THEN stopEditing ELSE UNCHANGED evars
  /\ pendingClick' = [pick |-> pick, shift |-> shift,
                      endsEdit |-> mActive /\ isEditing]
  /\ UNCHANGED <<modevars, mvars, avars, camera, labels, labelsVisible, kernel,
                 report, disposed, rvars, hvars>>
  /\ threw' = FALSE /\ warned' = NoWarning

\* the queued 'click' is dispatched to the canvas listeners
GestureClick ==
  /\ pendingClick # Null
  /\ IF mActive THEN handleClick(pendingClick.pick, pendingClick.shift)
     ELSE UNCHANGED mvars /\ warned' = NoWarning
  /\ pendingClick' = Null
  /\ ToolClicks(pendingClick.pick, pendingClick.shift)
  /\ UNCHANGED <<modevars, evars, avars, camera, labels, labelsVisible, kernel,
                 report, disposed>>
  /\ threw' = FALSE

NextGesture ==
  \/ \E pick \in EditSession.picks \cup {NoHit} : GesturePress(pick)
  \/ \E pick \in EditSession.picks \cup {NoHit} : GestureMove(pick)
  \/ \E pick \in EditSession.picks \cup {NoHit}, shift \in BOOLEAN :
       GestureRelease(pick, shift, EditSession)
  \/ GestureClick

SpecGesture == InitGesture /\ [][NextGesture]_vars

\* ------------------------------------------------------------------ claims
ActiveTools ==
  {t \in {"measure", "annotate", "reference", "himp"} :
     \/ t = "measure" /\ mActive
     \/ t = "annotate" /\ aActive
     \/ t = "reference" /\ rActive
     \/ t = "himp" /\ hActive}

\* C1: tool modes are mutually exclusive: at most one of the four tool systems
\* is active, the active one is the one currentMode names, none is active in
\* view, and a canvas click (with any modifier keys) is taken by at most one
\* tool's handler.
C1_ModesExclusive ==
  /\ Cardinality(ActiveTools) <= 1
  /\ ActiveTools = IF currentMode = "view" THEN {} ELSE {currentMode}
  /\ \A shift \in BOOLEAN, ctrl \in BOOLEAN :
       /\ Cardinality(ClickHandlers(shift, ctrl)) <= 1
       /\ ClickHandlers(shift, ctrl) \subseteq {currentMode}

\* the HIMP tool is active after the measurement and the annotation tool were
\* both used
C1_Witness ==
  /\ currentMode = "himp" /\ hActive
  /\ measurements # <<>> /\ annotations # <<>>

\* the perimeter the point sequence of m calls for
ExpectedPerimeter(m) ==
  LET n == Len(m.points) IN
  IF n < 2 THEN Zero
  ELSE Plus(PathLength(m.points, 2),
            IF m.isClosed THEN calculateDistance(m.points[n], m.points[1]) ELSE Zero)

\* C2: every measurement's stored perimeter equals the sum of its consecutive
\* segment lengths, plus the closing segment iff the measurement is closed; a
\* measurement with fewer than 2 points has perimeter 0.
C2_PerimeterConsistent ==
  \A i \in 1..Len(measurements) :
    measurements[i].totalDistance = ExpectedPerimeter(measurements[i])

\* C3: a closed measurement has at least 3 points: deleting a point so that
\* fewer than 3 remain forces isClosed to false.
C3_ClosedHasThreePoints ==
  \A i \in 1..Len(measurements) :
    measurements[i].isClosed => Len(measurements[i].points) >= 3

\* C4: every measurement's stored area equals the polygon area of its points
\* when it is closed with at least 3 points, and is 0 otherwise.
C4_AreaConsistent ==
  \A i \in 1..Len(measurements) :
    LET m == measurements[i] IN
    m.area = IF m.isClosed /\ Len(m.points) >= 3
             THEN calculatePolygonArea(m.points) ELSE Zero

MeasurementIds == {measurements[i].id : i \in 1..Len(measurements)}

\* C5: an annotation's link, if present, references a measurement that is in
\* the measurement store.
C5_LinkNeverDangles ==
  \A i \in 1..Len(annotations) :
    annotations[i].linkedMeasurement # Null =>
      annotations[i].linkedMeasurement.measurement \in MeasurementIds

\* C8: once an annotation is saved with a link to a measurement, that
\* measurement is locked.
C8_LinkedIsLocked ==
  \A i \in 1..Len(annotations), k \in 1..Len(measurements) :
    (/\ annotations[i].linkedMeasurement # Null
     /\ annotations[i].linkedMeasurement.measurement = measurements[k].id)
      => measurements[k].isLocked

\* the step leaves the points of every locked measurement as they are
LockedPointsKept ==
  \A i \in 1..Len(measurements) :
    measurements[i].isLocked =>
      /\ i <= Len(measurements')
      /\ measurements'[i].points = measurements[i].points

\* the point being dragged belongs to a locked measurement
EditingLocked ==
  /\ mActive /\ isEditing /\ EditTargetExists
  /\ measurements[editingMeasurementIndex + 1].isLocked

LockedKept ==
  \A i \in 1..Len(measurements) :
    measurements[i].isLocked =>
      /\ i <= Len(measurements')
      /\ measurements'[i] = measurements[i]

\* C7: a click (add point), a shift-click (delete point) and 'c' (close) leave
\* every locked measurement's points, closed flag, perimeter and area unchanged
\* and raise no error; applied to a locked measurement they only log a warning.
C7_LockedNoOp ==
  [][(\/ \E pick \in LockedSession.picks \cup {NoHit}, shift \in BOOLEAN :
          CanvasClick(pick, shift, 0, LockedSession)
      \/ KeyC)
       => LockedKept /\ threw' = FALSE]_vars

\* a click in measure mode was refused because the current measurement, which
\* has room for the point, is locked
C7_Witness ==
  /\ warned = "Cannot add point to locked measurement"
  /\ mActive
  /\ measurements[currentMeasurementIndex + 1].isLocked
  /\ Len(measurements[currentMeasurementIndex + 1].points) = 2

\* the measurements that are closed with at least 3 points and hold point
EnclosingAt(point) ==
  {i \in 1..Len(measurements) :
     /\ measurements[i].isClosed /\ Len(measurements[i].points) >= 3
     /\ isPointInPolygon(point, measurements[i].points)}

\* C9: inside has absolute priority: when the point is inside some closed
\* measurement with at least 3 points, the link found is that measurement
\* (the first such in iteration order), relationship inside, distance 0,
\* whatever the order of the measurements and whatever segments are near.
C9_InsideWins ==
  [][\A pick \in LinkPicks :
       (LinkClick(pick) /\ EnclosingAt(pick) # {}) =>
         LET first == CHOOSE i \in EnclosingAt(pick) :
                        \A k \in EnclosingAt(pick) : i <= k
         IN /\ threw' = FALSE
            /\ currentMeasurementLink' = InsideLink(measurements[first])]_vars

\* the square of the distance from p to the segment a-b (clamped projection),
\* as the fraction num / den of grid units squared
SegmentDistanceSq(p, a, b) ==
  LET len2 == DistanceSq(a, b)
      dot == (p.x - a.x) * (b.x - a.x) + (p.y - a.y) * (b.y - a.y)
               + (p.z - a.z) * (b.z - a.z)
  IN IF len2 = 0 \/ dot <= 0 THEN [num |-> DistanceSq(p, a), den |-> 1]
     ELSE IF dot >= len2 THEN [num |-> DistanceSq(p, b), den |-> 1]
     ELSE [num |-> DistanceSq(p, a) * len2 - dot * dot, den |-> len2]

FractionLess(q1, q2) == q1.num * q2.den < q2.num * q1.den

\* the segments of m, the closing segment included when m is closed
SegmentsOf(m) ==
  LET n == Len(m.points) IN
  {<<m.points[i], m.points[i + 1]>> : i \in 1..(n - 1)}
    \cup (IF m.isClosed /\ n >= 3 THEN {<<m.points[n], m.points[1]>>} ELSE {})

\* the (measurement, squared distance) pairs of the segments nearest to point
NearestSegments(point) ==
  LET all == {[measurement |-> measurements[i].id,
               distanceSq |-> SegmentDistanceSq(point, sg[1], sg[2])] :
                <<i, sg>> \in
                  UNION {{<<i, sg>> : sg \in SegmentsOf(measurements[i])} :
                           i \in 1..Len(measurements)}}
  IN {c \in all : \A d \in all : ~FractionLess(d.distanceSq, c.distanceSq)}

\* C10: when the point is inside no closed measurement, the link found is
\* {measurement, near_line, distance} for the measurement owning the globally
\* nearest segment if that distance is below 0.5, and null otherwise.
C10_NearLine ==
  [][\A pick \in LinkPicks :
       (LinkClick(pick) /\ EnclosingAt(pick) = {}) =>
         LET near == {c \in NearestSegments(pick) :
                        c.distanceSq.num * 4 <
                          Grid.perUnit * Grid.perUnit * c.distanceSq.den}
         IN /\ threw' = FALSE
            /\ IF near = {} THEN currentMeasurementLink' = Null
               ELSE /\ currentMeasurementLink' # Null
                    /\ currentMeasurementLink'.relationship = "near_line"
                    /\ \E c \in near :
                         /\ currentMeasurementLink'.measurement = c.measurement
                         /\ currentMeasurementLink'.distanceSq = c.distanceSq]_vars

\* C11: no core operation raises an error: looking up the measurement link of
\* a picked point, and so placing an annotation by a click on the surface,
\* completes without throwing for every point and every store of measurements.
C11_NoErrorThrown == threw = FALSE

C13_EditingLocksCamera == controlsEnabled <=> ~isEditing

\* point editing is active in measure mode and the camera is disabled
C13_Witness == currentMode = "measure" /\ isEditing /\ ~controlsEnabled

\* C14: Escape is a state reset: after it no unsaved point is pending and the
\* point-editing sub-state is idle with camera input enabled.
C14_EscapeResets ==
  [][handleEscape =>
       /\ pendingAnnotationPoint' = Null
       /\ ~isEditing' /\ controlsEnabled']_vars

\* the points (measurement i, point j, both 1-based) within the 0.1 tolerance
\* of position
WithinTolerance(position) ==
  {ij \in UNION {{<<i, j>> : j \in 1..Len(measurements[i].points)} :
                   i \in 1..Len(measurements)} :
     Below(DistanceSq(position, measurements[ij[1]].points[ij[2]]), 1, 10)}

\* those of them that no other point is nearer than
NearestWithinTolerance(position) ==
  {ij \in WithinTolerance(position) :
     \A kl \in WithinTolerance(position) :
       DistanceSq(position, measurements[ij[1]].points[ij[2]])
         <= DistanceSq(position, measurements[kl[1]].points[kl[2]])}

\* the step changes the points of no measurement other than measurement i
OnlyPointsOf(i) ==
  \A k \in 1..Len(measurements) :
    k # i => /\ k <= Len(measurements')
             /\ measurements'[k].points = measurements[k].points

\* C15: in measure mode with editing idle, a plain click that hits the surface
\* adds exactly one point, to the current measurement or to a newly started
\* one if there is no current measurement; a Shift click adds no point and
\* removes only the nearest existing point within tolerance, changing nothing
\* if no point is within tolerance.
C15_ClickSemantics ==
  [][\A pick \in EditSession.picks :
       /\ (mActive /\ ~isEditing /\ CanvasClick(pick, FALSE, 0, EditSession)) =>
            IF hasCurrentMeasurement(measurements, currentMeasurementIndex)
            THEN /\ Len(measurements') = Len(measurements)
                 /\ measurements'[currentMeasurementIndex + 1].points =
                      Append(measurements[currentMeasurementIndex + 1].points, pick)
                 /\ OnlyPointsOf(currentMeasurementIndex + 1)
                 /\ currentMeasurementIndex' = currentMeasurementIndex
            ELSE /\ Len(measurements') = Len(measurements) + 1
                 /\ measurements'[Len(measurements')].points = <<pick>>
                 /\ OnlyPointsOf(0)
                 /\ currentMeasurementIndex' = Len(measurements)
       /\ (mActive /\ ~isEditing /\ CanvasClick(pick, TRUE, 0, EditSession)) =>
            /\ Len(measurements') = Len(measurements)
            /\ IF WithinTolerance(pick) = {}
               THEN OnlyPointsOf(0)
               ELSE \E ij \in NearestWithinTolerance(pick) :
                      /\ measurements'[ij[1]].points =
                           RemoveAt(measurements[ij[1]].points, ij[2])
                      /\ OnlyPointsOf(ij[1])]_vars

\* a measurement was drawn with three clicks and closed, and a Shift click
\* then removed one of its points
C15_Witness ==
  /\ mActive /\ ~isEditing
  /\ \E i \in 1..Len(measurements) :
       /\ measurements[i].isClosed
       /\ measurements[i].points = <<Pt(0, 0, 0), Pt(20, 0, 0)>>

\* the first of a non-empty set of (measurement, point) pairs in measurement
\* order, then point order
FirstInOrder(pairs) ==
  CHOOSE ij \in pairs :
    \A kl \in pairs : ij[1] < kl[1] \/ (ij[1] = kl[1] /\ ij[2] <= kl[2])

\* C16: findClosestPoint returns the single globally closest measurement point
\* within maxDistance of the position, or no result when no point is within
\* maxDistance; of two equidistant points it returns the one met first in
\* measurement order, then point order.  (A Ctrl press starts editing exactly
\* the point findClosestPoint returns.)
C16_ClosestPoint ==
  [][\A pick \in ClosestPicks :
       (mActive /\ CanvasMouseDown(pick)) =>
         IF NearestWithinTolerance(pick) = {}
         THEN UNCHANGED <<isEditing, editingPointIndex, editingMeasurementIndex>>
         ELSE LET hit == FirstInOrder(NearestWithinTolerance(pick)) IN
              /\ isEditing'
              /\ editingMeasurementIndex' = hit[1] - 1
              /\ editingPointIndex' = hit[2] - 1]_vars

\* a press midway between the second point of the first measurement and the
\* point of the second measurement, with a third point farther but within
\* tolerance, started editing the second point of the first measurement
C16_Witness ==
  /\ Len(measurements) = 2
  /\ measurements[1].points = <<Pt(0, 0, 1), Pt(2, 0, 0)>>
  /\ measurements[2].points = <<Pt(0, 0, 0)>>
  /\ isEditing /\ editingMeasurementIndex = 0 /\ editingPointIndex = 1

\* C17: close fails when there is no current measurement or the current one
\* has fewer than 3 points: the store is left as it is (open, same points,
\* perimeter and area); and whatever the step, a measurement that becomes
\* closed was open with at least 3 points.
C17_CloseNeedsThreePoints ==
  [][/\ (KeyC /\ ~(/\ hasCurrentMeasurement(measurements, currentMeasurementIndex)
                   /\ Len(measurements[currentMeasurementIndex + 1].points) >= 3))
          => measurements' = measurements
     /\ \A i \in 1..Len(measurements), k \in 1..Len(measurements') :
          (/\ measurements'[k].id = measurements[i].id
           /\ measurements'[k].isClosed /\ ~measurements[i].isClosed)
            => Len(measurements[i].points) >= 3
     /\ \A k \in 1..Len(measurements') :
          measurements'[k].id \notin MeasurementIds => ~measurements'[k].isClosed]_vars

\* 'c' was refused on a current measurement of 2 points, which is still open
C17_Witness ==
  /\ warned = "Need at least 3 points to close measurement"
  /\ hasCurrentMeasurement(measurements, currentMeasurementIndex)
  /\ Len(measurements[currentMeasurementIndex + 1].points) = 2
  /\ ~measurements[currentMeasurementIndex + 1].isClosed

AnnotationIds == {annotations[i].id : i \in 1..Len(annotations)}

\* C18: an annotation's link is a snapshot: a new annotation takes the link
\* computed for the modal at the time it is saved, and no later step (edits of
\* measurement points, updates of the annotation) changes an annotation's
\* referenced measurement, relationship kind or distance.
C18_LinkIsSnapshot ==
  [][\A k \in 1..Len(annotations') :
       IF annotations'[k].id \in AnnotationIds
       THEN \A i \in 1..Len(annotations) :
              annotations[i].id = annotations'[k].id =>
                annotations'[k].linkedMeasurement = annotations[i].linkedMeasurement
       ELSE annotations'[k].linkedMeasurement = currentMeasurementLink]_vars

\* an annotation is linked as inside a measurement whose points were edited
\* afterwards and no longer enclose it
C18_Witness ==
  \E i \in 1..Len(annotations), k \in 1..Len(measurements) :
    /\ annotations[i].linkedMeasurement # Null
    /\ annotations[i].linkedMeasurement.relationship = "inside"
    /\ annotations[i].linkedMeasurement.measurement = measurements[k].id
    /\ ~isPointInPolygon(annotations[i].position, measurements[k].points)

\* what the claims about measurement data compare: id, points, closed flag,
\* perimeter and area of every measurement of the store, in order
MeasurementData(ms) ==
  [i \in 1..Len(ms) |->
     [id |-> ms[i].id, points |-> ms[i].points, isClosed |-> ms[i].isClosed,
      totalDistance |-> ms[i].totalDistance, area |-> ms[i].area]]

\* C19: the annotation linker only reads measurements: a click of the
\* annotation tool (which computes the link), Save, Cancel, Delete and Remove
\* Link change no measurement's points, closed flag, perimeter or area, nor
\* the set of measurements.
C19_LinkerReadsOnly ==
  [][(AnnotStep(AnnotSession) \/ ModalRemoveLink)
       => MeasurementData(measurements') = MeasurementData(measurements)]_vars

\* an annotation was saved with a link while the annotation tool is active and
\* the linked measurement is in the store
C19_Witness ==
  /\ aActive
  /\ \E i \in 1..Len(annotations) :
       /\ annotations[i].linkedMeasurement # Null
       /\ annotations[i].linkedMeasurement.measurement \in MeasurementIds

\* the ids of the measurements of ms, in store order
IdsOf(ms) == [i \in 1..Len(ms) |-> ms[i].id]

\* C20: measurement ids are stable and monotonically assigned: no two
\* measurements of the store share an id and every id is below the counter;
\* in every step the measurements that stay keep their ids (in order), a new
\* measurement gets an id that is at least the counter, hence greater than
\* every id assigned before, and the counter never decreases.
C20_IdsStableMonotonic ==
  /\ [](/\ \A i \in 1..Len(measurements), k \in 1..Len(measurements) :
             i # k => measurements[i].id # measurements[k].id
        /\ \A i \in 1..Len(measurements) : measurements[i].id < measurementIdCounter)
  /\ [][/\ measurementIdCounter' >= measurementIdCounter
        /\ \/ /\ Len(measurements') >= Len(measurements)
              /\ SubSeq(IdsOf(measurements'), 1, Len(measurements)) = IdsOf(measurements)
              /\ \A k \in (Len(measurements) + 1)..Len(measurements') :
                   /\ measurements'[k].id >= measurementIdCounter
                   /\ measurements'[k].id < measurementIdCounter'
           \/ \E gone \in 1..Len(measurements) :
                IdsOf(measurements') = RemoveAt(IdsOf(measurements), gone)]_vars

\* the first measurement was cleared and the second, created after it, is
\* now first in the store with id 2
C20_Witness ==
  /\ Len(measurements) = 1
  /\ measurements[1].id = 2
  /\ measurementIdCounter = 3

\* C21: the geometry functions give a zero / false result on degenerate
\* input: calculatePolygonArea returns 0 and isPointInPolygon returns false
\* for every point sequence of fewer than 3 points, the empty one included.
C21_DegenerateIsZero ==
  Len(kernel.points) < 3 =>
    /\ kernel.applied = "calculatePolygonArea" => kernel.area = Zero
    /\ kernel.applied = "isPointInPolygon" => kernel.inside = FALSE

\* isPointInPolygon was applied to a sequence of 2 points
C21_Witness ==
  /\ kernel.applied = "isPointInPolygon"
  /\ Len(kernel.points) = 2

UnitSquare == <<Pt(0, 0, 0), Pt(20, 0, 0), Pt(20, 0, 20), Pt(0, 0, 20)>>

\* C22: isPointInPolygon tests the (x, z) projection and ignores y: for the
\* unit square the point (0.5, y, 0.5) is inside and the point (1.5, y, 0.5)
\* is outside for every y, and for every polygon the result is the one of the
\* point moved to y = 0.
C22_ProjectionIgnoresY ==
  kernel.applied = "isPointInPolygon" =>
    /\ kernel.points = UnitSquare =>
         /\ (kernel.point.x = 10 /\ kernel.point.z = 10) => kernel.inside
         /\ (kernel.point.x = 30 /\ kernel.point.z = 10) => ~kernel.inside
    /\ kernel.inside = isPointInPolygon([kernel.point EXCEPT !.y = 0], kernel.points)

\* the point (0.5, 3, 0.5) was found inside the unit square
C22_Witness ==
  /\ kernel.applied = "isPointInPolygon"
  /\ kernel.points = UnitSquare
  /\ kernel.point = Pt(10, 60, 10)
  /\ kernel.inside

\* the cross product (p - b) x (q - b)
CrossVector(b, p, q) ==
  LET v1 == Pt(p.x - b.x, p.y - b.y, p.z - b.z)
      v2 == Pt(q.x - b.x, q.y - b.y, q.z - b.z)
  IN Pt(v1.y * v2.z - v1.z * v2.y, v1.z * v2.x - v1.x * v2.z,
        v1.x * v2.y - v1.y * v2.x)

\* twice the vector area of the polygon: the sum of the cross products of its
\* fan triangles
RECURSIVE VectorAreaSum(_, _)
VectorAreaSum(points, i) ==
  IF i > Len(points) - 1 THEN Pt(0, 0, 0)
  ELSE LET c == CrossVector(points[1], points[i], points[i + 1])
           rest == VectorAreaSum(points, i + 1)
       IN Pt(c.x + rest.x, c.y + rest.y, c.z + rest.z)

\* the area enclosed by a planar polygon: half the length of that sum
EnclosedArea(points) ==
  LET v == VectorAreaSum(points, 2)
  IN Root(v.x * v.x + v.y * v.y + v.z * v.z, 1)

\* the polygon turns the same way at every vertex
IsConvex(points) ==
  LET n == Len(points)
      v == VectorAreaSum(points, 2)
      At(i) == points[((i - 1) % n) + 1]
      turn(i) == CrossVector(At(i), At(i + 1), At(i + 2))
  IN /\ n >= 3
     /\ \A i \in 1..n :
          turn(i).x * v.x + turn(i).y * v.y + turn(i).z * v.z > 0

\* n square units, as a sum of roots of grid units
SquareUnits(n) == [r \in {1} |-> 2 * n * Grid.perUnit * Grid.perUnit]

RightTriangle == <<Pt(0, 0, 0), Pt(60, 0, 0), Pt(0, 0, 80)>>

\* C23: calculatePolygonArea is exact for planar convex polygons: its result
\* is the area the polygon encloses; for the right triangle with vertices
\* (0,0,0), (3,0,0), (0,0,4) it is 6.
C23_AreaExactWhenConvex ==
  kernel.applied = "calculatePolygonArea" =>
    /\ kernel.points = RightTriangle => kernel.area = SquareUnits(6)
    /\ IsConvex(kernel.points) => kernel.area = EnclosedArea(kernel.points)

\* the area of the convex pentagon was computed
C23_Witness ==
  /\ kernel.applied = "calculatePolygonArea"
  /\ Len(kernel.points) = 5
  /\ IsConvex(kernel.points)
  /\ kernel.area # Zero

\* the label is displayed
Shown(label) == label.display # "none"

\* C24: overlay visibility culling: after a frame has repositioned the labels,
\* no label of any kind (measurement, annotation, reference, condition score)
\* whose point is behind the camera or 100 or more units away is shown.
C24_OutOfViewHidden ==
  [][animate =>
       \A i \in DOMAIN labels' :
         ~isVisible(labels'[i].position, camera') => ~Shown(labels'[i])]_vars

\* the domain state and the editing sub-state
DomainState ==
  <<measurements, currentMeasurementIndex, measurementIdCounter, annotations,
    annotationIdCounter, pendingAnnotationPoint, editingAnnotationId,
    currentMeasurementLink, currentMode, mActive, aActive, rActive, hActive,
    isEditing, editingPointIndex, editingMeasurementIndex>>

\* C25: label repositioning is idempotent and has no side effect on domain
\* state: every frame and every tick of a fallback timer leaves measurements,
\* annotations, the mode and the editing sub-state unchanged, and running the
\* same repositioning again on its result changes no label.
C25_RepositioningIsPure ==
  [][/\ (animate \/ measurementLabelTimer \/ annotationLabelTimer) =>
          UNCHANGED DomainState
     /\ animate => RepositionAll(labels', camera', labelsVisible') = labels'
     /\ measurementLabelTimer =>
          updateAllLabels(labels', camera', labelsVisible') = labels'
     /\ annotationLabelTimer =>
          annotationUpdateAllLabels(labels', camera') = labels']_vars

\* every label has been positioned, the camera has since moved close to the
\* target and a frame has hidden the reference label, which is now behind it
C25_Witness ==
  /\ camera = Pt(4, 0, 0)
  /\ \A i \in DOMAIN labels :
       /\ labels[i].at # Null
       /\ labels[i].at.view = Direction(Minus(Target, camera))
  /\ \E i \in DOMAIN labels : labels[i].kind = "reference" /\ ~Shown(labels[i])

C27_EscapeClearsCurrent ==
  [][(handleEscape /\ currentMode = "measure") =>
       IF hasCurrentMeasurement(measurements, currentMeasurementIndex)
          /\ ~measurements[currentMeasurementIndex + 1].isLocked
       THEN LET gone == currentMeasurementIndex + 1 IN
            /\ Len(measurements') = Len(measurements) - 1
            /\ \A i \in 1..Len(measurements') :
                 measurements'[i] = measurements[IF i < gone THEN i ELSE i + 1]
       ELSE measurements' = measurements]_vars

\* two measurements were started, the first with a point, and Escape removed
\* the second, which was the current one
C27_Witness ==
  /\ currentMode = "measure"
  /\ Len(measurements) = 1
  /\ measurements[1].id = 1 /\ Len(measurements[1].points) >= 1
  /\ measurementIdCounter = 3
  /\ currentMeasurementIndex = 0

\* C28: the point-editing sub-state exists only inside measure mode: in every
\* state editing implies that the measurement tool is the active mode, and
\* every step that leaves measure mode (to view or to another tool) leaves
\* the sub-state idle, with camera input enabled.
C28_EditingOnlyInMeasure ==
  /\ [](isEditing => (mActive /\ currentMode = "measure"))
  /\ [][(currentMode = "measure" /\ currentMode' # "measure") =>
          /\ ~isEditing' /\ controlsEnabled'
          /\ editingPointIndex' = -1 /\ editingMeasurementIndex' = -1]_vars

\* the second point of a measurement is being edited in measure mode: the
\* state a switch of tool resets
C28_Witness ==
  /\ isEditing /\ mActive /\ currentMode = "measure"
  /\ editingPointIndex = 1 /\ EditTargetExists

\* the numbers of points of the measurements, in store order
PointCounts(ms) == [i \in 1..Len(ms) |-> Len(ms[i].points)]

\* C29: a complete point-edit gesture (Ctrl press near a point, drags,
\* release, then the click event that follows the release) only moves the
\* edited point: none of its events adds a point to a measurement, removes
\* one or creates a measurement.
C29_EditGestureOnlyMoves ==
  [][(\/ \E pick \in EditSession.picks : GesturePress(pick)
      \/ isEditing /\ \E pick \in EditSession.picks :
           \/ GestureMove(pick)
           \/ GestureRelease(pick, FALSE, EditSession)
      \/ GestureClick /\ pendingClick.endsEdit /\ ~pendingClick.shift)
       => PointCounts(measurements') = PointCounts(measurements)]_vars

\* C30: whenever the point-editing sub-state is active, its target refers to
\* an existing measurement and an existing point of it, so a drag move has a
\* point to update and raises no error; this holds when key events (Escape,
\* N, C, 1-9) arrive between the press and the release.
C30_EditTargetExists ==
  /\ isEditing => EditTargetExists
  /\ threw = FALSE

\* C31: when the user presses Remove Link in the dialog of a new annotation
\* and then saves, the annotation that is stored has no link
\* (linkedMeasurement is null).
C31_RemovedLinkNotSaved ==
  [][(linkRemoved /\ Len(annotations') = Len(annotations) + 1)
       => annotations'[Len(annotations')].linkedMeasurement = Null]_vars

\* the ids of the annotations the report lists under measurement i
ListedUnder(i) ==
  {report.measurements[i].linkedAnnotations[k].id :
     k \in 1..Len(report.measurements[i].linkedAnnotations)}

\* the ids of the annotations of the report whose link names measurement i
LinkedTo(i) ==
  {report.annotations[j].id :
     j \in {j \in 1..Len(report.annotations) :
              /\ report.annotations[j].linkedMeasurement # Null
              /\ report.annotations[j].linkedMeasurement.measurementId
                   = report.measurements[i].id}}

\* C32: in the exported report, the linkedAnnotations of each measurement are
\* exactly the annotations whose saved link references that measurement.
C32_LinkedAnnotationsListed ==
  report # Null =>
    \A i \in 1..Len(report.measurements) : ListedUnder(i) = LinkedTo(i)

\* C33: the points of a measurement are kept in insertion order: addPoint
\* appends the new point at the end, deletePoint(index) removes exactly the
\* point at that index and keeps the order of the others, and an index out of
\* range changes nothing.
C33_PointsKeepOrder ==
  [][LET points == measurements[1].points
         after == measurements'[1].points
     IN /\ \A point \in PointsSession.picks :
             ApplyAddPoint(point) => after = Append(points, point)
        /\ \A pointIndex \in -1..PointsSession.maxPoints :
             ApplyDeletePoint(pointIndex) =>
               IF pointIndex >= 0 /\ pointIndex < Len(points)
               THEN /\ Len(after) = Len(points) - 1
                    /\ \A k \in 1..Len(after) :
                         after[k] = points[IF k <= pointIndex THEN k ELSE k + 1]
               ELSE UNCHANGED measurements]_vars

\* the middle point of the closed triangle was deleted: the first and the
\* last point are left, in that order, with the length of the one segment
C33_Witness ==
  /\ measurements[1].isClosed
  /\ measurements[1].points = <<Pt(0, 0, 0), Pt(0, 0, 20)>>
  /\ measurements[1].totalDistance = calculateDistance(Pt(0, 0, 0), Pt(0, 0, 20))

\* C34: after any sequence of create, switch, clear and point operations the
\* current-measurement index is -1 (no current measurement) or a valid index
\* into the measurement list, and a request to switch to an index outside the
\* list changes nothing.
C34_CurrentIndexValid ==
  /\ [](currentMeasurementIndex = -1
        \/ hasCurrentMeasurement(measurements, currentMeasurementIndex))
  /\ [][\A k \in 1..(ModeSession.maxMeasurements + 1) :
          (KeyDigit(k) /\ k - 1 >= Len(measurements)) => UNCHANGED mvars]_vars

\* the second of two measurements is the current one: key '1' switches to
\* the first, key '3' asks for a measurement that is not in the list
C34_Witness ==
  /\ currentMode = "measure"
  /\ Len(measurements) = 2
  /\ currentMeasurementIndex = 1

\* C35: createMeasurement appends a new empty open measurement and makes it
\* the current one, and the colors go round the palette of PaletteSize colors
\* in the order of creation: the n-th measurement created (the one of id n)
\* has palette color (n - 1) mod PaletteSize, the color after the one given to
\* the measurement created before it, also after measurements were deleted.
C35_ColorsCycle ==
  /\ [](\A i \in 1..Len(measurements) :
          measurements[i].color = (measurements[i].id - 1) % PaletteSize)
  /\ [][(KeyN(ModeSession) /\ currentMode = "measure") =>
          /\ Len(measurements') = Len(measurements) + 1
          /\ SubSeq(measurements', 1, Len(measurements)) = measurements
          /\ measurements'[Len(measurements')].points = <<>>
          /\ ~measurements'[Len(measurements')].isClosed
          /\ currentMeasurementIndex' = Len(measurements)]_vars

\* C36: no two stored annotations share an id, whether the user accepts the
\* id the dialog suggests or overwrites it.
C36_AnnotationIdsUnique ==
  \A i, j \in 1..Len(annotations) :
    i # j => annotations[i].id # annotations[j].id

\* C37: no two stored reference points share an id, after any sequence of
\* create, delete, clear-all and import operations.
C37_ReferenceIdsUnique ==
  \A i, j \in 1..Len(referencePoints) :
    i # j => referencePoints[i].id # referencePoints[j].id

\* C38: every stored condition-score assessment has a score for each of the
\* six categories, each an integer from 0 to 6, and a save with a category
\* left unscored stores nothing.
C38_SixScoresStored ==
  /\ [](\A i \in 1..Len(himpScores) :
          /\ DOMAIN himpScores[i].himpScores = himpCategories
          /\ Cardinality(DOMAIN himpScores[i].himpScores) = 6
          /\ \A c \in himpCategories : himpScores[i].himpScores[c] \in 0..6)
  /\ [][\A surfaceId \in HimpSession.surfaceIds, scores \in HimpSession.forms :
          (HimpSave(surfaceId, scores, HimpSession)
             /\ himpCategories \ DOMAIN scores # {})
            => UNCHANGED himpScores]_vars

\* two assessments are stored, one scored 6 in every category and one scored
\* 0 to 5, and the dialog is open on a third surface point
C38_Witness ==
  /\ Len(himpScores) = 2
  /\ \E i, j \in 1..2 :
       himpScores[i].himpScores = Scored(6) /\ himpScores[j].himpScores = Graded
  /\ pendingSurfacePoint # Null

\* ------------------------------------------------------------------- dispose
\* the largest number of measurements and of annotations a disposed store holds
DisposeEntities == 3

\* MeasurementSystem.dispose's forEach over this.measurements, from index k on:
\* forEach reads the length once (len) and visits index k only while the array
\* still has it, and clearMeasurement splices the visited measurement out of
\* the same array. ms = the array, cur = currentMeasurementIndex, warn = the
\* last console.warn, live = this.scene is set. this.scene.remove(sphere) on a
\* null scene throws and ends the loop
RECURSIVE disposeMeasurements(_, _, _, _, _, _)
disposeMeasurements(ms, cur, warn, k, len, live) ==
  IF k >= len
  THEN [measurements |-> ms, current |-> cur, warned |-> warn, threw |-> FALSE]
  ELSE IF k >= Len(ms)
  THEN disposeMeasurements(ms, cur, warn, k + 1, len, live)
  ELSE IF ms[k + 1].isLocked
  THEN disposeMeasurements(ms, cur, "Cannot clear locked measurement", k + 1,
                           len, live)
  ELSE IF ~live /\ Len(ms[k + 1].points) > 0
  THEN [measurements |-> ms, current |-> cur, warned |-> warn, threw |-> TRUE]
  ELSE disposeMeasurements(RemoveAt(ms, k + 1),
                           IF cur >= k THEN cur - 1 ELSE cur, warn, k + 1, len,
                           live)

\* AnnotationSystem.dispose's forEach over this.annotations, from index k on:
\* removeAnnotation splices the visited annotation out of the same array, and
\* this.scene.remove(annotation.dot) on a null scene throws
RECURSIVE disposeAnnotations(_, _, _, _)
disposeAnnotations(as, k, len, live) ==
  IF k >= len THEN [annotations |-> as, threw |-> FALSE]
  ELSE IF k >= Len(as) THEN disposeAnnotations(as, k + 1, len, live)
  ELSE IF ~live THEN [annotations |-> as, threw |-> TRUE]
  ELSE disposeAnnotations(RemoveAt(as, k + 1), k + 1, len, live)

\* MeasurementSystem.dispose
measurementDispose ==
  LET done == disposeMeasurements(measurements, currentMeasurementIndex,
                                  NoWarning, 0, Len(measurements),
                                  "measurement" \notin disposed)
  IN /\ measurements' = done.measurements
     /\ currentMeasurementIndex' = done.current
     /\ warned' = done.warned
     /\ threw' = done.threw
     /\ disposed' = IF done.threw THEN disposed ELSE disposed \cup {"measurement"}
     /\ UNCHANGED <<modevars, measurementIdCounter, evars, avars, camera, labels,
                    labelsVisible, kernel, pendingClick, report, rvars, hvars>>

\* AnnotationSystem.dispose
annotationDispose ==
  LET done == disposeAnnotations(annotations, 0, Len(annotations),
                                 "annotation" \notin disposed)
  IN /\ annotations' = done.annotations
     /\ threw' = done.threw
     /\ IF done.threw
        THEN UNCHANGED <<pendingAnnotationPoint, editingAnnotationId, modalOpen,
                         linkRemoved, disposed>>
        ELSE closeModal /\ disposed' = disposed \cup {"annotation"}
     /\ warned' = NoWarning
     /\ UNCHANGED <<modevars, mvars, evars, annotationIdCounter,
                    currentMeasurementLink, camera, labels, labelsVisible,
                    kernel, pendingClick, report, rvars, hvars>>

\* the stores of n open, unlocked measurements drawn from shapes
RECURSIVE MeasurementStores(_, _)
MeasurementStores(n, shapes) ==
  IF n = 0 THEN {<<>>}
  ELSE {Append(ms, Drawn(n, n - 1, pts, FALSE, FALSE)) :
          ms \in MeasurementStores(n - 1, shapes), pts \in shapes}

\* the stores of n unlinked annotations D1..Dn placed on picks
RECURSIVE AnnotationStores(_, _)
AnnotationStores(n, picks) ==
  IF n = 0 THEN {<<>>}
  ELSE {Append(as, [id |-> n, position |-> pick, linkedMeasurement |-> Null]) :
          as \in AnnotationStores(n - 1, picks), pick \in picks}

\* the sessions the two systems are disposed after
DisposeSession ==
  [shapes |-> {<<>>, <<Pt(0, 0, 0)>>, <<Pt(0, 0, 0), Pt(20, 0, 0)>>},
   picks |-> AnnotPicks, maxEntities |-> DisposeEntities]

\* the two systems hold up to DisposeEntities unlocked measurements and as
\* many annotations, the last measurement is the current one
InitDispose ==
  /\ \E n \in 0..DisposeSession.maxEntities :
       measurements \in MeasurementStores(n, DisposeSession.shapes)
  /\ \E n \in 0..DisposeSession.maxEntities :
       annotations \in AnnotationStores(n, DisposeSession.picks)
  /\ currentMeasurementIndex = Len(measurements) - 1
  /\ measurementIdCounter = Len(measurements) + 1
  /\ annotationIdCounter = Len(annotations) + 1
  /\ currentMode = "view"
  /\ mActive = FALSE /\ aActive = FALSE /\ rActive = FALSE /\ hActive = FALSE
  /\ isEditing = FALSE /\ editingPointIndex = -1 /\ editingMeasurementIndex = -1
  /\ controlsEnabled = TRUE
  /\ pendingAnnotationPoint = Null
  /\ editingAnnotationId = NoId
  /\ currentMeasurementLink = Null
  /\ modalOpen = FALSE
  /\ threw = FALSE
  /\ warned = NoWarning
  /\ InitRest

NextDispose ==
  \/ measurementDispose
  \/ annotationDispose

SpecDispose == InitDispose /\ [][NextDispose]_vars

\* C39: the first dispose() of the measurement system leaves the measurement
\* list empty and the first dispose() of the annotation system leaves the
\* annotation list empty, for any number of stored unlocked entities
C39_DisposeClearsAll ==
  [][/\ (measurementDispose /\ "measurement" \notin disposed)
          => measurements' = <<>>
     /\ (annotationDispose /\ "annotation" \notin disposed)
          => annotations' = <<>>]_vars
====
